---- MODULE Spec2Model ----
(***************************************************************************)
(* One node of the P2P compute network: the Verification component         *)
(* (TaskVerification), the Dispatch component (DHTTaskDistribution) and    *)
(* the Orchestrator that composes them.                                    *)
(*                                                                         *)
(* Each component is modelled with its own entry points: its public        *)
(* methods, its timers and the frames the Peer Manager hands to it.  What  *)
(* lies outside the component is its environment: the peer catalog the     *)
(* Peer Manager answers getPeerInfo / getAllPeers from, the node lists     *)
(* remote peers return to a lookup, the frames remote peers send, and the  *)
(* decision helper's answer.  JavaScript runs a handler to completion:     *)
(* an action is one handler together with the promise continuations that   *)
(* run before the next timer or frame can be delivered.                    *)
(***************************************************************************)
EXTENDS Integers, Sequences, FiniteSets, TLC

(***************************************************************************)
(* Bounds of the model.                                                    *)
(***************************************************************************)
NumPeers == 5                \* remote peer ids 1..NumPeers
MaxVerifications == 1        \* verification ids 1..MaxVerifications
MaxResponders == 4           \* known peers 0..MaxResponders-1 send responses
MaxTasks == 1                \* local task ids 1..MaxTasks
MaxLookup == 4               \* longest node list a lookup returns
MaxCores == 2                \* largest cpuCores a task requires
MaxMemory == 2               \* largest memoryGB a task requires
MaxNetPeers == 2             \* remote ids 1..MaxNetPeers of the connection events
MaxResultFrames == 1         \* task_result frames delivered in one run
MaxThreats == 2               \* threats stored in one run
MaxLookupNodes == 6           \* remote nodes a lookup can learn of
MaxRequestIds == 2            \* request ids of find_node frames
MaxNow == 120                \* seconds of the circuit breakers' clock
MaxKnown == 10               \* advertisements the Discovery component holds
MaxHealthChecks == 1         \* runs of the health check
MaxRouteEvents == 3          \* addNodeToRoutingTable calls in one run

(***************************************************************************)
(* Program constants.                                                      *)
(***************************************************************************)
consensusThresholdPct == 67  \* consensusThreshold = 0.67
minVerifiers == 3
maxVerifiers == 7
minCandidateReputationPct == 50   \* peer.reputation >= 0.5
minVerifierReputationPct == 30    \* peer.reputation >= 0.3
maxCandidates == 10          \* suitablePeers.slice(0, 10)
maxBackups == 3              \* candidates.slice(1, 4)
maxConnectionAttempts == 3
k == 20                      \* Kademlia bucket size
alpha == 3                   \* concurrent queries of a lookup
numBuckets == 160            \* initializeRoutingTable
partitionThresholdPct == 30  \* partitionThreshold = 0.3
healedPct == 80              \* reconnectedCount >= affectedPeers.length * 0.8
maxRecoveryAttempts == 3
breakerThreshold == 5         \* CircuitBreaker.threshold
breakerTimeout == 60         \* CircuitBreaker.timeout, in seconds
recoveryCheckInterval == 30  \* recoveryCheckIntervalMs, in seconds
lowScorePct == 20            \* reputation.score < 0.2
lowScoreMinVerifications == 5
errorRatePct == 50           \* errorRate > 0.5
errorRateMinVerifications == 10

Local == 0
RemotePeers == 1..NumPeers
KnownPeers == {Local} \cup RemotePeers
UnknownPeer == NumPeers + 1  \* an id the catalog does not hold
AnyPeer == KnownPeers \cup {UnknownPeer}
Responders == {p \in KnownPeers : p < MaxResponders} \cup {UnknownPeer}

VerifIds == 1..MaxVerifications
TaskIds == 1..MaxTasks
RemoteTask == 0              \* the id of a task some remote node submitted
AnyTask == TaskIds \cup {RemoteTask}

Min(a, b) == IF a <= b THEN a ELSE b
Max(a, b) == IF a >= b THEN a ELSE b

(***************************************************************************)
(* The peer catalog: the PeerInfo records the Peer Manager holds.  The     *)
(* reputation and latency are in hundredths and milliseconds.  The         *)
(* components never compare a catalog id with the local id, so the         *)
(* catalog ranges over all ids.                                            *)
(***************************************************************************)
PeerInfo(p) ==
    CASE p = 0 -> [cpuCores |-> 2, ramGB |-> 2, gpuAcceleration |-> TRUE,
                   thermalState |-> "nominal", reputation |-> 80,
                   latency |-> 50, status |-> "connected"]
      [] p = 1 -> [cpuCores |-> 2, ramGB |-> 2, gpuAcceleration |-> FALSE,
                   thermalState |-> "fair", reputation |-> 50,
                   latency |-> 150, status |-> "connected"]
      [] p = 2 -> [cpuCores |-> 1, ramGB |-> 2, gpuAcceleration |-> TRUE,
                   thermalState |-> "serious", reputation |-> 60,
                   latency |-> 250, status |-> "connected"]
      [] p = 3 -> [cpuCores |-> 2, ramGB |-> 1, gpuAcceleration |-> TRUE,
                   thermalState |-> "nominal", reputation |-> 90,
                   latency |-> 50, status |-> "connected"]
      [] p = 4 -> [cpuCores |-> 2, ramGB |-> 2, gpuAcceleration |-> TRUE,
                   thermalState |-> "nominal", reputation |-> 40,
                   latency |-> 50, status |-> "connected"]
      [] p = 5 -> [cpuCores |-> 2, ramGB |-> 2, gpuAcceleration |-> TRUE,
                   thermalState |-> "critical", reputation |-> 90,
                   latency |-> 50, status |-> "connected"]
      [] OTHER -> [cpuCores |-> 2, ramGB |-> 2, gpuAcceleration |-> TRUE,
                   thermalState |-> "nominal", reputation |-> 70,
                   latency |-> 120, status |-> "disconnected"]

Requirements ==
    [cpuCores : 1..MaxCores, memoryGB : 1..MaxMemory, gpuRequired : BOOLEAN]

VARIABLES
    \* ---- Verification (TaskVerification) ----
    nextVerification,        \* the next fresh verification id
    pendingVerifications,    \* ids in the pendingVerifications map
    verificationRequests,    \* id -> the VerificationRequest created for it
    verificationResults,     \* ids in the verificationResults map
    completedVerifications,  \* ids in the completedVerifications map
    results,                 \* id -> the VerificationResult object
    verificationTimeouts,    \* ids whose deadline timer is armed
    reputationScores,        \* peer -> counts of its ReputationScore
    finalizations,           \* id -> verification_finalized + verification_timeout events
    deadlineFired,           \* ids whose deadline callback has run
    verificationShutdown,    \* TaskVerification has emitted 'shutdown'
    \* ---- Dispatch (DHTTaskDistribution) ----
    nextTask,                \* the next fresh task id
    pendingTasks,            \* ids in the pendingTasks map
    activeTasks,             \* ids in the activeTasks map
    taskRequirements,        \* id -> requirements of the TaskRequest
    taskAssignments,         \* id -> TaskAssignment, or NoAssignment
    completedTasks,          \* ids in the completedTasks map
    taskTimers,              \* ids whose completion timer is armed
    completions,             \* id -> Active->Completed transitions
    failures,                \* id -> Active->Failed transitions
    resultFrames,            \* id -> TaskResult frames handed to the submitter's channel
    submitErrors,            \* ids whose submitTask call threw
    taskResultsReceived,     \* the 'task_result_received' events emitted
    sent,                    \* frames handed to an open channel
    \* ---- Orchestrator ----
    verificationRequired,    \* config.verificationRequired
    surfacedCompleted,       \* task ids of task_completed events at the boundary
    receivedApproved,        \* task_received for this id while the helper's answer is accept
    executed,                \* ids of tasks executeTask has run for
    consulted,               \* the evaluateTaskRequest calls made: task id and answer
    \* ---- Peer Manager (P2PNetworkManager) ----
    peers,                   \* id -> status of the PeerInfo record, "none" without one
    connections,             \* ids in the connections map
    dataChannels,            \* id -> readyState of its channel, "none" without one
    connectionAttempts,      \* id -> entry of the connectionAttempts map
    retryTimers,             \* ids with a 5 s retry timer pending
    connectReturned,         \* what connectToPeer returned, when it ran in the last step
    \* ---- Routing table (DHTTaskDistribution.routingTable) ----
    buckets,                 \* bucket index -> the bucket's array of nodes
    routeClock,              \* Date.now() of the routing table's events
    pendingAdds,             \* addNodeToRoutingTable calls waiting for pingNode
    \* ---- Resilience (NetworkResilience) ----
    knownPeers,              \* ids PeerDiscovery.getKnownPeers returns
    connectedPeers,          \* ids P2PNetworkManager.getConnectedPeers returns
    networkPartitions,       \* partition id -> the NetworkPartition record
    healthChecks,            \* runs of the health check so far
    healing,                 \* partitions whose healNetworkPartition call is in flight
    partitionEvents,         \* the 'partition_detected' events emitted
    circuitBreakers,         \* service -> the CircuitBreaker record
    now,                     \* Date.now() of the Resilience component, in seconds
    blacklistedPeers,
    trustedPeers,
    securityEvents,          \* the threats mitigateSecurityThreat has stored
    \* ---- Orchestrator lifecycle (P2POrchestrator) ----
    config,                  \* the configuration given to the constructor
    isInitialized,           \* P2POrchestrator.isInitialized
    initializing,            \* a call of P2POrchestrator.initialize is at an await
    initStarted,             \* components whose initialize was called, in call order
    initDone,                \* components whose initialize has returned, in order
    shutdownLog,             \* components shut down by the last shutdown, in call order
    recoveries,              \* id -> attempt of the handlePeerFailure loop waiting in its
                             \* backoff, 4 while it looks for a replacement, 0 when
                             \* none runs
    recoveryActions,         \* id -> the RecoveryAction of the last loop for the peer
    \* ---- TaskVerification of the remote verifiers ----
    verifierHandled,         \* verifier and id of the requests a verifier's handler has run for
    verifierResponses,       \* the response frames verifiers handed to a channel
    \* ---- requestVerification's locals ----
    selectedVerifiers,       \* id -> the verifiers array handed to the broadcast
    lastRequest,             \* the arguments of the requestVerification call that threw last
    \* ---- executeTask ----
    executionFailures,       \* ids of the tasks whose handler threw inside executeTask
    \* ---- performNodeLookup ----
    lookupPhase,             \* "idle", "running" (awaiting a round) or "done"
    lookupNet,               \* the remote routing tables the replies come from
    lookupVisited,           \* the visited set
    lookupActive,            \* the keys of activeQueries, in insertion order
    lookupCandidates,        \* the node objects in candidates, in insertion order
    lookupQueries,           \* every queryNode call of the lookup, in order
    lookupResult,            \* the array the lookup returned
    \* ---- frames delivered to the Peer Manager ----
    findNodeReceived,        \* the find_node request frames that arrived
    messageEvents,           \* the frames emitted as 'message' events
    replyFrames,             \* the frames sent in answer to a frame
    pendingQueries,          \* request ids of the queryNode promises not yet settled
    queryCompletions         \* which frame's request id resolved which query

verifVars == <<nextVerification, pendingVerifications, verificationRequests,
               verificationResults, completedVerifications, results,
               verificationTimeouts, reputationScores, finalizations,
               deadlineFired, verificationShutdown>>
dispatchVars == <<nextTask, pendingTasks, activeTasks, taskRequirements,
                  taskAssignments, completedTasks, taskTimers, completions,
                  failures, resultFrames, submitErrors, taskResultsReceived>>
orchVars == <<verificationRequired, surfacedCompleted, receivedApproved, executed,
              consulted>>
netVars == <<peers, connections, dataChannels, connectionAttempts, retryTimers,
            connectReturned>>
routeVars == <<buckets, routeClock, pendingAdds>>
partitionVars == <<knownPeers, connectedPeers, networkPartitions, healthChecks,
                   healing, partitionEvents>>
breakerVars == <<circuitBreakers, now>>
securityVars == <<blacklistedPeers, trustedPeers, securityEvents>>
resVars == <<partitionVars, breakerVars, securityVars>>
lifeVars == <<config, isInitialized, initializing, initStarted, initDone, shutdownLog,
              recoveries, recoveryActions>>
remoteVars == <<verifierHandled, verifierResponses>>
selectVars == <<selectedVerifiers, lastRequest>>
frameVars == <<findNodeReceived, messageEvents, replyFrames, pendingQueries,
               queryCompletions>>
lookupVars == <<lookupPhase, lookupNet, lookupVisited, lookupActive, lookupCandidates,
                lookupQueries, lookupResult>>
vars == <<verifVars, dispatchVars, sent, orchVars, netVars, routeVars, resVars,
          lifeVars, remoteVars, selectVars, executionFailures, lookupVars, frameVars>>

(***************************************************************************)
(* P2PNetworkManager.sendMessage: a frame is sent only when a data channel *)
(* to the peer is open.  Channels are keyed by remote peer; there is none  *)
(* to the local id.                                                        *)
(***************************************************************************)
ChannelOpen(p) == p \in RemotePeers /\ PeerInfo(p).status = "connected"

SendMessage(frames, to, frame) ==
    IF ChannelOpen(to) THEN frames \cup {frame} ELSE frames

(***************************************************************************)
(*                          V E R I F I C A T I O N                        *)
(***************************************************************************)
NoRequest == [taskId |-> -1, submittedBy |-> -1, requiredVerifiers |-> 0]

BlankResult ==
    [consensus |-> "none", verifierCount |-> 0, approvalCount |-> 0,
     rejectionCount |-> 0, consensusReached |-> FALSE, verifications |-> <<>>]

NewResult == [BlankResult EXCEPT !.consensus = "pending"]

NewReputation == [total |-> 0, correct |-> 0, falsePositives |-> 0, falseNegatives |-> 0]

\* Math.ceil(x * 0.5)
CeilHalf(x) == (x + 1) \div 2

\* Math.ceil(n * 0.67)
CeilThreshold(n) == (consensusThresholdPct * n + 99) \div 100

CanPeerVerify(p, req) ==
    /\ PeerInfo(p).cpuCores >= CeilHalf(req.cpuCores)
    /\ PeerInfo(p).ramGB >= CeilHalf(req.memoryGB)
    /\ PeerInfo(p).thermalState # "critical"
    /\ PeerInfo(p).reputation >= minVerifierReputationPct

\* ReputationScore.score as the fraction num/den: 0.5 before any update, then
\* clamp(accuracy - 0.5 * errorRate, 0, 1).
ScoreNum(rep) ==
    IF rep.total = 0 THEN 1
    ELSE Max(0, Min(2 * rep.total,
                    2 * rep.correct - (rep.falsePositives + rep.falseNegatives)))
ScoreDen(rep) == IF rep.total = 0 THEN 2 ELSE 2 * rep.total

\* scoreA >= scoreB for score = reputation.score * 0.7 + (200 - latency) * 0.3
VerifierScoreGE(a, b) ==
    LET na == ScoreNum(reputationScores[a])
        da == ScoreDen(reputationScores[a])
        nb == ScoreNum(reputationScores[b])
        db == ScoreDen(reputationScores[b])
    IN  7 * na * db + 3 * (200 - PeerInfo(a).latency) * da * db
          >= 7 * nb * da + 3 * (200 - PeerInfo(b).latency) * da * db

\* The selection without the test against the executor.
SelectVerifiers_KeepsExecutor(req, excludePeer) ==
    {p \in KnownPeers : PeerInfo(p).status = "connected" /\ CanPeerVerify(p, req)}

SelectVerifiers(req, excludePeer) ==
    LET eligible == {p \in KnownPeers :
                        /\ p # excludePeer
                        /\ PeerInfo(p).status = "connected"
                        /\ CanPeerVerify(p, req)}
    IN  IF Cardinality(eligible) <= maxVerifiers THEN eligible
        ELSE CHOOSE S \in SUBSET eligible :
                /\ Cardinality(S) = maxVerifiers
                /\ \A a \in S, b \in eligible \ S : VerifierScoreGE(a, b)

BroadcastVerificationRequest(frames, v, verifiers) ==
    frames \cup {[type |-> "verification_request", to |-> p, id |-> v,
                  assignedTo |-> -1, isBackup |-> FALSE] : p \in {q \in verifiers : ChannelOpen(q)}}

NoRequirements == [cpuCores |-> 0, memoryGB |-> 0, gpuRequired |-> FALSE]
NoThrow == [threw |-> FALSE, completedBy |-> -1, req |-> NoRequirements]

RequestVerification(taskId, completedBy, req) ==
    LET v == nextVerification
        verifiers == SelectVerifiers(req, completedBy)
    IN  /\ v \in VerifIds
        /\ IF Cardinality(verifiers) < minVerifiers
           THEN \* throws before any state is written
                /\ lastRequest' = [threw |-> TRUE, completedBy |-> completedBy, req |-> req]
                /\ UNCHANGED <<verifVars, sent, selectedVerifiers>>
           ELSE /\ nextVerification' = v + 1
                /\ pendingVerifications' = pendingVerifications \cup {v}
                /\ verificationRequests' =
                      [verificationRequests EXCEPT ![v] =
                          [taskId |-> taskId, submittedBy |-> completedBy,
                           requiredVerifiers |-> Min(Cardinality(verifiers), maxVerifiers)]]
                /\ verificationResults' = verificationResults \cup {v}
                /\ results' = [results EXCEPT ![v] = NewResult]
                /\ sent' = BroadcastVerificationRequest(sent, v, verifiers)
                /\ verificationTimeouts' = verificationTimeouts \cup {v}
                /\ selectedVerifiers' = [selectedVerifiers EXCEPT ![v] = verifiers]
                /\ UNCHANGED lastRequest
                /\ UNCHANGED <<completedVerifications, reputationScores,
                               finalizations, deadlineFired, verificationShutdown>>
        /\ UNCHANGED <<resVars, netVars, routeVars, lifeVars, remoteVars, lookupVars, frameVars, executionFailures, dispatchVars, orchVars>>

\* checkConsensus: the consensus it leaves in the result, and what it returns.
CheckConsensus(r) ==
    LET total == r.verifierCount
        required == Min(minVerifiers, CeilThreshold(total))
    IN  IF total < required THEN [reached |-> FALSE, consensus |-> r.consensus]
        ELSE IF 100 * r.approvalCount >= consensusThresholdPct * total
             THEN [reached |-> TRUE, consensus |-> "approved"]
        ELSE IF 100 * r.rejectionCount >= consensusThresholdPct * total
             THEN [reached |-> TRUE, consensus |-> "rejected"]
        ELSE [reached |-> FALSE, consensus |-> r.consensus]

\* updateReputationScores for one responder.
UpdateOne(rep, isValid, majority) ==
    [total |-> rep.total + 1,
     correct |-> rep.correct + (IF isValid = majority THEN 1 ELSE 0),
     falsePositives |-> rep.falsePositives + (IF isValid /\ ~majority THEN 1 ELSE 0),
     falseNegatives |-> rep.falseNegatives + (IF ~isValid /\ majority THEN 1 ELSE 0)]

RECURSIVE UpdateReputationScores(_, _, _)
UpdateReputationScores(scores, verifications, majority) ==
    IF verifications = <<>> THEN scores
    ELSE LET x == Head(verifications)
         IN  UpdateReputationScores(
                 [scores EXCEPT ![x.verifierId] = UpdateOne(@, x.isValid, majority)],
                 Tail(verifications), majority)

\* The duplicate test left out: no stored response is ever found.
HasResponseFrom_Never(r, verifier) == FALSE

HasResponseFrom(r, verifier) ==
    \E i \in 1..Len(r.verifications) : r.verifications[i].verifierId = verifier

\* verifySignature: any non-empty signature passes.
VerifySignature(signature) == signature # ""

\* The result object after the response is appended and the counts updated.
AddResponse(r, verifier, isValid) ==
    [r EXCEPT !.verifications = Append(@, [verifierId |-> verifier, isValid |-> isValid]),
              !.verifierCount = Len(r.verifications) + 1,
              !.approvalCount = @ + (IF isValid THEN 1 ELSE 0),
              !.rejectionCount = @ + (IF isValid THEN 0 ELSE 1)]

ProcessVerificationResponse(v, verifier, isValid, signature) ==
    /\ IF \/ v \notin verificationResults
          \/ ~VerifySignature(signature)
          \/ verifier \notin KnownPeers
          \/ HasResponseFrom(results[v], verifier)
       THEN UNCHANGED verifVars
       ELSE LET added == AddResponse(results[v], verifier, isValid)
                check == CheckConsensus(added)
                final == [added EXCEPT !.consensus = check.consensus,
                                       !.consensusReached = @ \/ check.reached]
            IN  /\ results' = [results EXCEPT ![v] = final]
                \* finalizeVerification deletes the id from verificationResults;
                \* the handler then sets it again (verificationResults.set)
                /\ verificationResults' = verificationResults \cup {v}
                /\ IF check.reached
                   THEN \* finalizeVerification
                        /\ verificationTimeouts' = verificationTimeouts \ {v}
                        /\ reputationScores' =
                              UpdateReputationScores(reputationScores, final.verifications,
                                                     final.consensus = "approved")
                        /\ completedVerifications' = completedVerifications \cup {v}
                        /\ pendingVerifications' = pendingVerifications \ {v}
                        /\ finalizations' = [finalizations EXCEPT ![v] = @ + 1]
                   ELSE UNCHANGED <<verificationTimeouts, reputationScores,
                                    completedVerifications, pendingVerifications,
                                    finalizations>>
                /\ UNCHANGED <<nextVerification, verificationRequests, deadlineFired,
                               verificationShutdown>>
    /\ UNCHANGED <<resVars, netVars, routeVars, lifeVars, remoteVars, lookupVars, frameVars, selectVars, executionFailures, dispatchVars, sent, orchVars>>

\* handleVerificationTimeout without the assignment consensus = 'rejected'.
TimeoutResult_NoReject(r) == [r EXCEPT !.consensusReached = TRUE]

\* handleVerificationTimeout, the result object it finalizes.
TimeoutResult(r) ==
    IF r.verifierCount >= minVerifiers
    THEN [r EXCEPT !.consensusReached = TRUE]
    ELSE [r EXCEPT !.consensus = "rejected", !.consensusReached = TRUE]

HandleVerificationTimeout(v) ==
    /\ v \in verificationTimeouts
    /\ deadlineFired' = deadlineFired \cup {v}
    /\ verificationTimeouts' = verificationTimeouts \ {v}
    /\ IF v \notin verificationResults \/ results[v].consensusReached
       THEN UNCHANGED <<results, verificationResults, completedVerifications,
                        pendingVerifications, reputationScores, finalizations>>
       ELSE LET final == TimeoutResult(results[v])
            IN  /\ results' = [results EXCEPT ![v] = final]
                /\ reputationScores' =
                      IF results[v].verifierCount >= minVerifiers
                      THEN UpdateReputationScores(reputationScores, final.verifications,
                                                  final.consensus = "approved")
                      ELSE reputationScores
                /\ completedVerifications' = completedVerifications \cup {v}
                /\ verificationResults' = verificationResults \ {v}
                /\ pendingVerifications' = pendingVerifications \ {v}
                /\ finalizations' = [finalizations EXCEPT ![v] = @ + 1]
    /\ UNCHANGED <<nextVerification, verificationRequests, verificationShutdown>>
    /\ UNCHANGED <<resVars, netVars, routeVars, lifeVars, remoteVars, lookupVars, frameVars, selectVars, executionFailures, dispatchVars, sent, orchVars>>

\* TaskVerification.shutdown: clears the deadline timers, nothing else.
VerificationShutdown ==
    /\ verificationTimeouts' = {}
    /\ verificationShutdown' = TRUE
    /\ UNCHANGED <<nextVerification, pendingVerifications, verificationRequests,
                   verificationResults, completedVerifications, results,
                   reputationScores, finalizations, deadlineFired>>
    /\ UNCHANGED <<resVars, netVars, routeVars, lifeVars, remoteVars, lookupVars, frameVars, selectVars, executionFailures, dispatchVars, sent, orchVars>>

\* The request frame of verification v addressed to verifier p.
VerificationRequestFrame(v, p) ==
    [type |-> "verification_request", to |-> p, id |-> v,
     assignedTo |-> -1, isBackup |-> FALSE]

\* The pendingVerifications map of the node a frame was delivered to.  A
\* remote verifier's map holds the requests that verifier created, under ids
\* of 16 random bytes it generated itself: none of this node's ids.
PendingVerificationsOf(p) == IF p = Local THEN pendingVerifications ELSE {}

\* handleIncomingVerificationRequest at verifier p for the delivered request
\* frame of verification v: performVerification, then submitVerification,
\* which throws unless the id is in the verifier's own pendingVerifications;
\* the response goes to the request's submittedBy.
HandleIncomingVerificationRequest(p, v) ==
    /\ VerificationRequestFrame(v, p) \in sent
    /\ <<p, v>> \notin verifierHandled
    /\ verifierHandled' = verifierHandled \cup {<<p, v>>}
    /\ verifierResponses' =
          IF v \in PendingVerificationsOf(p)
          THEN verifierResponses \cup
                 {[from |-> p, to |-> verificationRequests[v].submittedBy, id |-> v]}
          ELSE verifierResponses
    /\ UNCHANGED <<verifVars, sent, selectVars, executionFailures, lookupVars, frameVars>>
    /\ UNCHANGED <<resVars, netVars, routeVars, lifeVars, dispatchVars, orchVars>>

RemoteInit ==
    /\ verifierHandled = {}
    /\ verifierResponses = {}

ExecInit == executionFailures = {}

SelectInit ==
    /\ selectedVerifiers = [v \in VerifIds |-> {}]
    /\ lastRequest = NoThrow

VerifInit ==
    /\ nextVerification = 1
    /\ pendingVerifications = {}
    /\ verificationRequests = [v \in VerifIds |-> NoRequest]
    /\ verificationResults = {}
    /\ completedVerifications = {}
    /\ results = [v \in VerifIds |-> BlankResult]
    /\ verificationTimeouts = {}
    /\ reputationScores = [p \in KnownPeers |-> NewReputation]
    /\ finalizations = [v \in VerifIds |-> 0]
    /\ deadlineFired = {}
    /\ verificationShutdown = FALSE

(***************************************************************************)
(*                             D I S P A T C H                             *)
(***************************************************************************)
NoAssignment == [assignedTo |-> -1, backupPeers |-> <<>>]

\* canPeerHandleTask without the thermalState test.
CanPeerHandleTask_IgnoresThermal(p, req) ==
    /\ PeerInfo(p).cpuCores >= req.cpuCores
    /\ PeerInfo(p).ramGB >= req.memoryGB
    /\ (~req.gpuRequired \/ PeerInfo(p).gpuAcceleration)
    /\ PeerInfo(p).reputation >= minCandidateReputationPct

\* canPeerHandleTask
CanPeerHandleTask(p, req) ==
    /\ PeerInfo(p).cpuCores >= req.cpuCores
    /\ PeerInfo(p).ramGB >= req.memoryGB
    /\ (~req.gpuRequired \/ PeerInfo(p).gpuAcceleration)
    /\ PeerInfo(p).thermalState # "critical"
    /\ PeerInfo(p).reputation >= minCandidateReputationPct

ThermalScore(state) ==
    CASE state = "nominal" -> 10
      [] state = "fair" -> 5
      [] state = "serious" -> -5
      [] state = "critical" -> -20
      [] OTHER -> 0

\* calculatePeerScore times 5 * req.cpuCores * req.memoryGB, which keeps it an
\* integer and keeps the order of the scores of one task.
CalculatePeerScore(p, req) ==
    LET caps == PeerInfo(p)
        rc == req.cpuCores
        rm == req.memoryGB
        latencyScore == IF caps.latency < 100 THEN 15
                        ELSE IF caps.latency < 200 THEN 10 ELSE 5
    IN  Max(0, 150 * rm * Min(caps.cpuCores, 2 * rc)
               + 125 * rc * Min(caps.ramGB, 2 * rm)
               + rc * rm * (caps.reputation + 5 * latencyScore
                            + 5 * ThermalScore(caps.thermalState)))

\* Array.prototype.sort with (a, b) => score(b) - score(a): stable, descending.
RECURSIVE InsertByScore(_, _, _)
InsertByScore(sorted, p, req) ==
    IF sorted = <<>> THEN <<p>>
    ELSE IF CalculatePeerScore(Head(sorted), req) >= CalculatePeerScore(p, req)
         THEN <<Head(sorted)>> \o InsertByScore(Tail(sorted), p, req)
         ELSE <<p>> \o sorted

RECURSIVE SortByScore(_, _)
SortByScore(infos, req) ==
    IF infos = <<>> THEN <<>>
    ELSE InsertByScore(SortByScore(SubSeq(infos, 1, Len(infos) - 1), req),
                       infos[Len(infos)], req)

\* findTaskCandidates on the node list the lookup returned.
FindTaskCandidates(req, candidateNodes) ==
    LET infos == SelectSeq(candidateNodes, LAMBDA n : n \in KnownPeers)
        suitable == SelectSeq(infos, LAMBDA p : CanPeerHandleTask(p, req))
        sorted == SortByScore(suitable, req)
    IN  SubSeq(sorted, 1, Min(Len(sorted), maxCandidates))

AssignTask(candidates) ==
    [assignedTo |-> candidates[1],
     backupPeers |-> SubSeq(candidates, 2, Min(Len(candidates), 1 + maxBackups))]

TaskRequestFrame(t, a, to, isBackup) ==
    [type |-> "task_request", to |-> to, id |-> t,
     assignedTo |-> a.assignedTo, isBackup |-> isBackup]

BroadcastTaskAssignment(frames, t, a) ==
    SendMessage(frames, a.assignedTo, TaskRequestFrame(t, a, a.assignedTo, FALSE))
      \cup {TaskRequestFrame(t, a, a.backupPeers[i], TRUE) :
              i \in {j \in 1..Len(a.backupPeers) : ChannelOpen(a.backupPeers[j])}}

\* The node lists a lookup can return: ids as remote peers report them.
LookupResults == UNION {[1..n -> AnyPeer] : n \in 0..MaxLookup}

\* submitTask up to the await of the lookup.
SubmitTask(req) ==
    /\ nextTask \in TaskIds
    /\ nextTask' = nextTask + 1
    /\ pendingTasks' = pendingTasks \cup {nextTask}
    /\ taskRequirements' = [taskRequirements EXCEPT ![nextTask] = req]
    /\ UNCHANGED <<activeTasks, taskAssignments, completedTasks, taskTimers,
                   completions, failures, resultFrames, submitErrors,
                   taskResultsReceived>>
    /\ UNCHANGED <<resVars, netVars, routeVars, lifeVars, remoteVars, lookupVars, frameVars, selectVars, executionFailures, verifVars, sent, orchVars>>

\* submitTask from the lookup's return to its end, without the delete from
\* pendingTasks in the catch block.
SubmitTaskAssign_NoCatch(t, candidateNodes) ==
    /\ t \in pendingTasks
    /\ LET candidates == FindTaskCandidates(taskRequirements[t], candidateNodes)
       IN  IF candidates = <<>>
           THEN /\ submitErrors' = submitErrors \cup {t}
                /\ UNCHANGED <<pendingTasks, activeTasks, taskAssignments, taskTimers, sent>>
           ELSE /\ taskAssignments' = [taskAssignments EXCEPT ![t] = AssignTask(candidates)]
                /\ activeTasks' = activeTasks \cup {t}
                /\ pendingTasks' = pendingTasks \ {t}
                /\ sent' = BroadcastTaskAssignment(sent, t, AssignTask(candidates))
                /\ taskTimers' = taskTimers \cup {t}
                /\ UNCHANGED submitErrors
    /\ UNCHANGED <<nextTask, taskRequirements, completedTasks, completions,
                   failures, resultFrames, taskResultsReceived>>
    /\ UNCHANGED <<resVars, netVars, routeVars, lifeVars, remoteVars, lookupVars, frameVars, selectVars, executionFailures, verifVars, orchVars>>

\* submitTask from the lookup's return to its end.
SubmitTaskAssign(t, candidateNodes) ==
    /\ t \in pendingTasks
    /\ LET candidates == FindTaskCandidates(taskRequirements[t], candidateNodes)
       IN  IF candidates = <<>>
           THEN /\ pendingTasks' = pendingTasks \ {t}   \* throws
                /\ submitErrors' = submitErrors \cup {t}
                /\ UNCHANGED <<activeTasks, taskAssignments, taskTimers, sent>>
           ELSE /\ taskAssignments' = [taskAssignments EXCEPT ![t] = AssignTask(candidates)]
                /\ activeTasks' = activeTasks \cup {t}
                /\ pendingTasks' = pendingTasks \ {t}
                /\ sent' = BroadcastTaskAssignment(sent, t, AssignTask(candidates))
                /\ taskTimers' = taskTimers \cup {t}    \* setTaskTimeout
                /\ UNCHANGED submitErrors
    /\ UNCHANGED <<nextTask, taskRequirements, completedTasks, completions,
                   failures, resultFrames, taskResultsReceived>>
    /\ UNCHANGED <<resVars, netVars, routeVars, lifeVars, remoteVars, lookupVars, frameVars, selectVars, executionFailures, verifVars, orchVars>>

\* The TaskResult frame goes to task.submittedBy, which is this node.
ResultFramesAfterSend(t) ==
    IF ChannelOpen(Local) THEN [resultFrames EXCEPT ![t] = @ + 1] ELSE resultFrames

\* submitTaskResult without the deletes from activeTasks and taskAssignments.
SubmitTaskResult_KeepsTask(t) ==
    /\ completedTasks' = completedTasks \cup {t}
    /\ UNCHANGED <<activeTasks, taskAssignments>>
    /\ resultFrames' = ResultFramesAfterSend(t)
    /\ completions' = [completions EXCEPT ![t] = @ + 1]
    /\ surfacedCompleted' = surfacedCompleted \cup {t}

\* submitTaskResult for a task in activeTasks, and the orchestrator's
\* task_completed handler, which forwards the event.
SubmitTaskResult(t) ==
    /\ completedTasks' = completedTasks \cup {t}
    /\ activeTasks' = activeTasks \ {t}
    /\ taskAssignments' = [taskAssignments EXCEPT ![t] = NoAssignment]
    /\ resultFrames' = ResultFramesAfterSend(t)
    /\ completions' = [completions EXCEPT ![t] = @ + 1]
    /\ surfacedCompleted' = surfacedCompleted \cup {t}

\* reportTaskFailure
ReportTaskFailure(t) ==
    IF taskAssignments[t] = NoAssignment \/ t \notin activeTasks
    THEN UNCHANGED <<taskAssignments, activeTasks, sent, resultFrames, failures>>
    ELSE IF Len(taskAssignments[t].backupPeers) > 0
    THEN LET newAssignment ==
                 [assignedTo |-> taskAssignments[t].backupPeers[1],
                  backupPeers |-> Tail(taskAssignments[t].backupPeers)]
         IN  /\ taskAssignments' = [taskAssignments EXCEPT ![t] = newAssignment]
             /\ sent' = BroadcastTaskAssignment(sent, t, newAssignment)
             /\ UNCHANGED <<activeTasks, resultFrames, failures>>
    ELSE /\ activeTasks' = activeTasks \ {t}
         /\ taskAssignments' = [taskAssignments EXCEPT ![t] = NoAssignment]
         /\ resultFrames' = ResultFramesAfterSend(t)
         /\ failures' = [failures EXCEPT ![t] = @ + 1]
         /\ UNCHANGED sent

\* The callback of setTaskTimeout: the timer fires once.
HandleTaskTimeout(t) ==
    /\ t \in taskTimers
    /\ taskTimers' = taskTimers \ {t}
    /\ IF t \in activeTasks
       THEN ReportTaskFailure(t)
       ELSE UNCHANGED <<taskAssignments, activeTasks, sent, resultFrames, failures>>
    /\ UNCHANGED <<nextTask, pendingTasks, taskRequirements, completedTasks, completions,
                   submitErrors, taskResultsReceived>>
    /\ UNCHANGED <<resVars, netVars, routeVars, lifeVars, remoteVars, lookupVars, frameVars, selectVars, executionFailures, verifVars, orchVars>>

\* executeTask catches what the handler throws and returns success: false;
\* the ids of the tasks it did so for.
ExecuteTask(t, success) ==
    IF success THEN executionFailures ELSE executionFailures \cup {t}

\* acceptTask without the test of the helper's answer.
AcceptTaskBody_IgnoresDecision(t, decision) ==
    IF /\ t \in TaskIds
       /\ taskAssignments[t] # NoAssignment
       /\ taskAssignments[t].assignedTo = Local
       /\ t \in activeTasks
    THEN /\ consulted' = consulted \cup {[taskId |-> t, action |-> decision]}
         /\ executed' = executed \cup {t}
         /\ \E success \in BOOLEAN : executionFailures' = ExecuteTask(t, success)
         /\ SubmitTaskResult(t)
    ELSE UNCHANGED <<consulted, executed, executionFailures, completedTasks, activeTasks,
                     taskAssignments, resultFrames, completions, surfacedCompleted>>

\* P2POrchestrator.acceptTask and, inside it, DHTTaskDistribution.acceptTask:
\* both look the task up in this node's own tables.  executeTask returns a
\* result object whether the handler succeeded or threw, and its handlers
\* await nothing, so the whole call runs before any timer or frame.
AcceptTaskBody(t, decision) ==
    IF /\ t \in TaskIds
       /\ taskAssignments[t] # NoAssignment
       /\ taskAssignments[t].assignedTo = Local
       /\ t \in activeTasks
    THEN \* evaluateTaskRequest is called and answers decision
         /\ consulted' = consulted \cup {[taskId |-> t, action |-> decision]}
         /\ IF decision = "accept"
            THEN /\ executed' = executed \cup {t}
                 \* the handler of the task's type returns or throws
                 /\ \E success \in BOOLEAN : executionFailures' = ExecuteTask(t, success)
                 /\ SubmitTaskResult(t)
            ELSE UNCHANGED <<executed, executionFailures, completedTasks, activeTasks,
                             taskAssignments, resultFrames, completions, surfacedCompleted>>
    ELSE UNCHANGED <<consulted, executed, executionFailures, completedTasks, activeTasks,
                     taskAssignments, resultFrames, completions, surfacedCompleted>>

AcceptTask(t, decision) ==
    /\ AcceptTaskBody(t, decision)
    /\ UNCHANGED <<nextTask, pendingTasks, taskRequirements, taskTimers, failures,
                   submitErrors, taskResultsReceived>>
    /\ UNCHANGED <<resVars, netVars, routeVars, lifeVars, remoteVars, lookupVars, frameVars, selectVars, verifVars, sent, verificationRequired, receivedApproved>>

\* handleIncomingTaskRequest for a task_request frame of a remote peer, and
\* the orchestrator's task_received handler, which calls acceptTask.
HandleIncomingTaskRequest(t, assignedTo, decision) ==
    /\ IF assignedTo = Local
       THEN /\ receivedApproved' =
                  IF decision = "accept" THEN receivedApproved \cup {t}
                  ELSE receivedApproved
            /\ AcceptTaskBody(t, decision)
       ELSE UNCHANGED <<receivedApproved, consulted, executed, executionFailures,
                        completedTasks, activeTasks, taskAssignments, resultFrames,
                        completions, surfacedCompleted>>
    /\ UNCHANGED <<nextTask, pendingTasks, taskRequirements, taskTimers, failures,
                   submitErrors, taskResultsReceived>>
    /\ UNCHANGED <<resVars, netVars, routeVars, lifeVars, remoteVars, lookupVars, frameVars, selectVars, verifVars, sent, verificationRequired>>

\* handleTaskResult for a task_result frame of a remote peer: it emits
\* 'task_result_received', which nothing listens to, and touches no table.
HandleTaskResult(t, completedBy) ==
    /\ Cardinality(taskResultsReceived) < MaxResultFrames
    /\ taskResultsReceived' =
           taskResultsReceived \cup {[taskId |-> t, completedBy |-> completedBy]}
    /\ UNCHANGED <<nextTask, pendingTasks, activeTasks, taskRequirements,
                   taskAssignments, completedTasks, taskTimers, completions,
                   failures, resultFrames, submitErrors>>
    /\ UNCHANGED <<resVars, netVars, routeVars, lifeVars, remoteVars, lookupVars, frameVars, selectVars, executionFailures, verifVars, sent, orchVars>>

DispatchInit ==
    /\ nextTask = 1
    /\ pendingTasks = {}
    /\ activeTasks = {}
    /\ taskRequirements = [t \in TaskIds |-> NoRequirements]
    /\ taskAssignments = [t \in TaskIds |-> NoAssignment]
    /\ completedTasks = {}
    /\ taskTimers = {}
    /\ completions = [t \in TaskIds |-> 0]
    /\ failures = [t \in TaskIds |-> 0]
    /\ resultFrames = [t \in TaskIds |-> 0]
    /\ submitErrors = {}
    /\ taskResultsReceived = {}

OrchestratorInit ==
    /\ verificationRequired \in BOOLEAN
    /\ surfacedCompleted = {}
    /\ receivedApproved = {}
    /\ executed = {}
    /\ consulted = {}

(***************************************************************************)
(*                          P E E R   M A N A G E R                        *)
(***************************************************************************)
NetPeers == 1..MaxNetPeers

\* The value a call of connectToPeer returned.
NoReturn == [peerId |-> 0, value |-> FALSE]
Returned(p, value) == [peerId |-> p, value |-> value]

\* updatePeerStatus: only a peer with a record has a status to update.
UpdatePeerStatus(table, p, status) ==
    IF table[p] = "none" THEN table ELSE [table EXCEPT ![p] = status]

\* cleanupPeerConnection
CleanupPeerConnection(p) ==
    /\ connections' = connections \ {p}
    /\ dataChannels' = [dataChannels EXCEPT ![p] = "none"]
    /\ peers' = UpdatePeerStatus(peers, p, "disconnected")

\* handlePeerDiscovery for one advertised peer: the only place a record is made.
HandlePeerDiscovery(p) ==
    /\ peers' = IF peers[p] = "none" THEN [peers EXCEPT ![p] = "disconnected"] ELSE peers
    /\ connectReturned' = NoReturn
    /\ UNCHANGED <<connections, dataChannels, connectionAttempts, retryTimers>>
    /\ UNCHANGED <<resVars, routeVars, lifeVars, remoteVars, lookupVars, frameVars, selectVars, executionFailures, verifVars, dispatchVars, sent, orchVars>>

\* The body of connectToPeer; created is FALSE when creating the offer or
\* answer throws.
ConnectToPeerBody(p, created) ==
    IF p \in connections
    THEN /\ connectReturned' = Returned(p, TRUE)
         /\ UNCHANGED <<peers, connections, dataChannels, connectionAttempts>>
    ELSE IF connectionAttempts[p] >= maxConnectionAttempts
    THEN /\ connectReturned' = Returned(p, FALSE)
         /\ UNCHANGED <<peers, connections, dataChannels, connectionAttempts>>
    ELSE /\ connectionAttempts' = [connectionAttempts EXCEPT ![p] = @ + 1]
         /\ connectReturned' = Returned(p, created)
         /\ IF created
            THEN /\ connections' = connections \cup {p}
                 /\ dataChannels' = [dataChannels EXCEPT ![p] = "connecting"]
                 /\ UNCHANGED peers
            ELSE CleanupPeerConnection(p)

\* connectToPeer called by another component
ConnectToPeer(p, created) ==
    /\ ConnectToPeerBody(p, created)
    /\ UNCHANGED retryTimers
    /\ UNCHANGED <<resVars, routeVars, lifeVars, remoteVars, lookupVars, frameVars, selectVars, executionFailures, verifVars, dispatchVars, sent, orchVars>>

\* The callback of the 5 s timer set when a connection failed.
RetryTimerFires(p, created) ==
    /\ p \in retryTimers
    /\ retryTimers' = retryTimers \ {p}
    /\ ConnectToPeerBody(p, created)
    /\ UNCHANGED <<resVars, routeVars, lifeVars, remoteVars, lookupVars, frameVars, selectVars, executionFailures, verifVars, dispatchVars, sent, orchVars>>

\* connection.onconnectionstatechange
ConnectionStateChange(p, state) ==
    /\ p \in connections
    /\ peers' = UpdatePeerStatus(peers, p, state)
    /\ connectionAttempts' =
          IF state = "connected" THEN [connectionAttempts EXCEPT ![p] = 0]
          ELSE connectionAttempts
    /\ retryTimers' = IF state = "failed" THEN retryTimers \cup {p} ELSE retryTimers
    /\ connectReturned' = NoReturn
    /\ UNCHANGED <<connections, dataChannels>>
    /\ UNCHANGED <<resVars, routeVars, lifeVars, remoteVars, lookupVars, frameVars, selectVars, executionFailures, verifVars, dispatchVars, sent, orchVars>>

\* The channel created by connectToPeer becomes open (dataChannel.onopen).
DataChannelOpen(p) ==
    /\ p \in connections
    /\ dataChannels[p] = "connecting"
    /\ dataChannels' = [dataChannels EXCEPT ![p] = "open"]
    /\ connectReturned' = NoReturn
    /\ UNCHANGED <<peers, connections, connectionAttempts, retryTimers>>
    /\ UNCHANGED <<resVars, routeVars, lifeVars, remoteVars, lookupVars, frameVars, selectVars, executionFailures, verifVars, dispatchVars, sent, orchVars>>

\* dataChannel.onclose
DataChannelClose(p) ==
    /\ dataChannels[p] # "none"
    /\ CleanupPeerConnection(p)
    /\ connectReturned' = NoReturn
    /\ UNCHANGED <<connectionAttempts, retryTimers>>
    /\ UNCHANGED <<resVars, routeVars, lifeVars, remoteVars, lookupVars, frameVars, selectVars, executionFailures, verifVars, dispatchVars, sent, orchVars>>

\* disconnect
Disconnect(p) ==
    /\ CleanupPeerConnection(p)
    /\ connectReturned' = NoReturn
    /\ UNCHANGED <<connectionAttempts, retryTimers>>
    /\ UNCHANGED <<resVars, routeVars, lifeVars, remoteVars, lookupVars, frameVars, selectVars, executionFailures, verifVars, dispatchVars, sent, orchVars>>

\* maintainConnections; stale are the records not seen for five minutes.
MaintainConnections(stale) ==
    /\ stale \subseteq {p \in NetPeers : peers[p] # "none"}
    /\ peers' = [p \in NetPeers |-> IF p \in stale THEN "none" ELSE peers[p]]
    /\ connections' = connections \ stale
    /\ dataChannels' = [p \in NetPeers |-> IF p \in stale THEN "none" ELSE dataChannels[p]]
    /\ connectReturned' = NoReturn
    /\ UNCHANGED <<connectionAttempts, retryTimers>>
    /\ UNCHANGED <<resVars, routeVars, lifeVars, remoteVars, lookupVars, frameVars, selectVars, executionFailures, verifVars, dispatchVars, sent, orchVars>>

\* getConnectedPeers
GetConnectedPeers == {p \in NetPeers : dataChannels[p] = "open"}

NetInit ==
    /\ peers = [p \in NetPeers |-> "none"]
    /\ connections = {}
    /\ dataChannels = [p \in NetPeers |-> "none"]
    /\ connectionAttempts = [p \in NetPeers |-> 0]
    /\ retryTimers = {}
    /\ connectReturned = NoReturn

NetNext ==
    \/ \E p \in NetPeers : HandlePeerDiscovery(p)
    \/ \E p \in NetPeers, created \in BOOLEAN : ConnectToPeer(p, created)
    \/ \E p \in NetPeers, created \in BOOLEAN : RetryTimerFires(p, created)
    \/ \E p \in NetPeers, state \in {"connected", "disconnected", "failed"} :
          ConnectionStateChange(p, state)
    \/ \E p \in NetPeers : DataChannelOpen(p)
    \/ \E p \in NetPeers : DataChannelClose(p)
    \/ \E p \in NetPeers : Disconnect(p)
    \/ \E stale \in SUBSET NetPeers : MaintainConnections(stale)

(***************************************************************************)
(*                         R O U T I N G   T A B L E                       *)
(***************************************************************************)
\* Node ids are read as one byte (Buffer.from(id, 'hex')).
RECURSIVE Xor(_, _)
Xor(a, b) ==
    IF a = 0 /\ b = 0 THEN 0
    ELSE (((a % 2) + (b % 2)) % 2) + 2 * Xor(a \div 2, b \div 2)

RECURSIVE Popcount(_)
Popcount(n) == IF n = 0 THEN 0 ELSE (n % 2) + Popcount(n \div 2)

\* Math.floor(Math.log2(n)) for n >= 1
RECURSIVE FloorLog2(_)
FloorLog2(n) == IF n <= 1 THEN 0 ELSE 1 + FloorLog2(n \div 2)

\* calculateXORDistance: the number of differing bits.
CalculateXORDistance(a, b) == Popcount(Xor(a, b))

BucketIndex(nodeId) == FloorLog2(CalculateXORDistance(Local, nodeId) + 1)

\* bucket.findIndex(node => node.id === nodeId), 0 when there is none
RECURSIVE FindIndexFrom(_, _, _)
FindIndexFrom(bucket, nodeId, i) ==
    IF i > Len(bucket) THEN 0
    ELSE IF bucket[i].id = nodeId THEN i
    ELSE FindIndexFrom(bucket, nodeId, i + 1)

FindIndex(bucket, nodeId) == FindIndexFrom(bucket, nodeId, 1)

\* bucket.reduce((oldest, node) => node.lastSeen < oldest.lastSeen ? node : oldest)
RECURSIVE LruFrom(_, _, _)
LruFrom(bucket, oldest, i) ==
    IF i > Len(bucket) THEN oldest
    ELSE LruFrom(bucket,
                 IF bucket[i].lastSeen < oldest.lastSeen THEN bucket[i] ELSE oldest,
                 i + 1)

LruNode(bucket) == LruFrom(bucket, bucket[1], 2)

\* bucket[lruIndex] = dhtNode after the ping was not answered; with the LRU
\* node gone findIndex gives -1 and the assignment changes no element.
ReplaceLru(bucket, lruId, dhtNode) ==
    IF FindIndex(bucket, lruId) = 0 THEN bucket
    ELSE [bucket EXCEPT ![FindIndex(bucket, lruId)] = dhtNode]

\* addNodeToRoutingTable on 'peer_connected'. hasRecord: getPeerInfo finds
\* the peer; lruChannelOpen: sendMessage of the ping to the LRU node succeeds.
AddNodeToRoutingTable(nodeId, hasRecord, lruChannelOpen) ==
    /\ routeClock < k + MaxRouteEvents
    /\ routeClock' = routeClock + 1
    /\ LET idx == BucketIndex(nodeId)
           bucket == buckets[idx]
           dhtNode == [id |-> nodeId, lastSeen |-> routeClock + 1]
       IN  IF ~hasRecord
           THEN UNCHANGED <<buckets, pendingAdds>>
           ELSE IF FindIndex(bucket, nodeId) > 0
           THEN /\ buckets' = [buckets EXCEPT ![idx][FindIndex(bucket, nodeId)] = dhtNode]
                /\ UNCHANGED pendingAdds
           ELSE IF Len(bucket) < k
           THEN /\ buckets' = [buckets EXCEPT ![idx] = Append(bucket, dhtNode)]
                /\ UNCHANGED pendingAdds
           ELSE IF ~lruChannelOpen
           THEN \* pingNode resolves false at once
                /\ buckets' = [buckets EXCEPT
                                 ![idx] = ReplaceLru(bucket, LruNode(bucket).id, dhtNode)]
                /\ UNCHANGED pendingAdds
           ELSE /\ pendingAdds' = pendingAdds \cup
                       {[node |-> dhtNode, bucketIndex |-> idx,
                         lru |-> LruNode(bucket).id, ponged |-> FALSE]}
                /\ UNCHANGED buckets
    /\ UNCHANGED <<resVars, netVars, lifeVars, remoteVars, lookupVars, frameVars, selectVars, executionFailures, verifVars, dispatchVars, sent, orchVars>>

\* The 3 s timer of pingNode fires: isReachable is false.
PingTimeout(a) ==
    /\ a \in pendingAdds
    /\ pendingAdds' = pendingAdds \ {a}
    /\ buckets' = [buckets EXCEPT
                     ![a.bucketIndex] = ReplaceLru(@, a.lru, a.node)]
    /\ UNCHANGED routeClock
    /\ UNCHANGED <<resVars, netVars, lifeVars, remoteVars, lookupVars, frameVars, selectVars, executionFailures, verifVars, dispatchVars, sent, orchVars>>

\* A pong frame from nodeId arrives. handleIncomingMessage hands it to the
\* Peer Manager's own 'pong' handler and does not emit it as 'message', so
\* the listener of pingNode never runs; ponged records that the pong came.
HandlePong(nodeId) ==
    /\ pendingAdds' = {IF a.lru = nodeId THEN [a EXCEPT !.ponged = TRUE] ELSE a :
                         a \in pendingAdds}
    /\ UNCHANGED <<buckets, routeClock>>
    /\ UNCHANGED <<resVars, netVars, lifeVars, remoteVars, lookupVars, frameVars, selectVars, executionFailures, verifVars, dispatchVars, sent, orchVars>>

\* removeNodeFromRoutingTable: the first occurrence in the first bucket that has one
RemoveFromBuckets(table, nodeId) ==
    LET holding == {i \in DOMAIN table : FindIndex(table[i], nodeId) > 0}
    IN  IF holding = {} THEN table
        ELSE LET i == CHOOSE j \in holding : \A h \in holding : j <= h
                 at == FindIndex(table[i], nodeId)
             IN  [table EXCEPT ![i] = SubSeq(@, 1, at - 1) \o SubSeq(@, at + 1, Len(@))]

RemoveNodeFromRoutingTable(nodeId) ==
    /\ buckets' = RemoveFromBuckets(buckets, nodeId)
    /\ UNCHANGED <<routeClock, pendingAdds>>
    /\ UNCHANGED <<resVars, netVars, lifeVars, remoteVars, lookupVars, frameVars, selectVars, executionFailures, verifVars, dispatchVars, sent, orchVars>>

\* Date.now() starts anywhere; k leaves room for the lastSeen of k earlier nodes.
RouteInit ==
    /\ buckets = [i \in 0..(numBuckets - 1) |-> <<>>]
    /\ routeClock = k
    /\ pendingAdds = {}

\* The table after k peers connected one after the other, each with a
\* record, at clock 1..k: here all of them fall into bucket 1, which is full.
FullBucketIds ==
    <<1, 2, 3, 4, 5, 6, 8, 9, 10, 12, 16, 17, 18, 20, 24, 32, 33, 34, 36, 40>>

InBucket(i, node) == BucketIndex(node.id) = i

FullBucketInit ==
    /\ buckets = [i \in 0..(numBuckets - 1) |->
                    SelectSeq([j \in 1..k |-> [id |-> FullBucketIds[j], lastSeen |-> j]],
                              LAMBDA node : InBucket(i, node))]
    /\ routeClock = k
    /\ pendingAdds = {}

\* The ids the routing events are about: three that calculateXORDistance
\* puts in bucket 1 and one it puts in bucket 2.
RouteIds == {1, 2, 48, 7}

RouteNext ==
    \/ \E p \in RouteIds, hasRecord \in BOOLEAN, lruChannelOpen \in BOOLEAN :
          AddNodeToRoutingTable(p, hasRecord, lruChannelOpen)
    \/ \E a \in pendingAdds : PingTimeout(a)
    \/ \E p \in RouteIds : HandlePong(p)
    \/ \E p \in RouteIds : RemoveNodeFromRoutingTable(p)


(***************************************************************************)
(*                            R E S I L I E N C E                          *)
(***************************************************************************)
PartitionIds == 1..MaxHealthChecks
NoPartition == [status |-> "none", healingAttempts |-> 0, affectedPeers |-> {}]

\* What the Discovery component and the Peer Manager can report: the first n
\* advertised ids, and a run of ids that may lie outside the advertised ones.
KnownSets == {1..n : n \in 0..MaxKnown}
ConnectedSets == {lo..hi : lo \in {1, MaxKnown}, hi \in 0..(MaxKnown + 1)}

\* Advertisements come and go, channels open and close.
KnownPeersChange(known) ==
    /\ knownPeers' = known
    /\ UNCHANGED <<connectedPeers, networkPartitions, healthChecks, healing,
                   partitionEvents>>
    /\ UNCHANGED <<breakerVars, securityVars, netVars, routeVars, lifeVars, remoteVars, lookupVars, frameVars, selectVars, executionFailures, verifVars, dispatchVars, sent, orchVars>>

ConnectedPeersChange(connected) ==
    /\ connectedPeers' = connected
    /\ UNCHANGED <<knownPeers, networkPartitions, healthChecks, healing,
                   partitionEvents>>
    /\ UNCHANGED <<breakerVars, securityVars, netVars, routeVars, lifeVars, remoteVars, lookupVars, frameVars, selectVars, executionFailures, verifVars, dispatchVars, sent, orchVars>>

\* connectivityRatio <= partitionThreshold
ConnectivityBelowThreshold_Inclusive(connected, known) ==
    100 * Cardinality(connected) <= partitionThresholdPct * Max(1, Cardinality(known))

\* connectivityRatio < partitionThreshold
ConnectivityBelowThreshold(connected, known) ==
    100 * Cardinality(connected) < partitionThresholdPct * Max(1, Cardinality(known))

\* detectAndHandlePartitions, run by the health check timer and by the
\* orchestrator, up to the first await inside healNetworkPartition: the
\* partition is stored and announced as 'detected' and its one healing
\* attempt is started.
DetectAndHandlePartitions ==
    /\ healthChecks < MaxHealthChecks
    /\ healthChecks' = healthChecks + 1
    /\ IF ConnectivityBelowThreshold(connectedPeers, knownPeers)
       THEN LET partitionId == healthChecks + 1
                affectedPeers == knownPeers \ connectedPeers
            IN  /\ partitionEvents' = partitionEvents \cup
                       {[id |-> partitionId, status |-> "detected",
                         affectedPeers |-> affectedPeers]}
                /\ networkPartitions' = [networkPartitions EXCEPT ![partitionId] =
                       [status |-> "healing", healingAttempts |-> 1,
                        affectedPeers |-> affectedPeers]]
                /\ healing' = healing \cup {partitionId}
       ELSE UNCHANGED <<networkPartitions, healing, partitionEvents>>
    /\ UNCHANGED <<knownPeers, connectedPeers>>
    /\ UNCHANGED <<breakerVars, securityVars, netVars, routeVars, lifeVars, remoteVars, lookupVars, frameVars, selectVars, executionFailures, verifVars, dispatchVars, sent, orchVars>>

\* healNetworkPartition after its reconnects, bridge requests and discovery
\* have returned: the check of the reconnected peers.
HealingOutcome(partition, newConnectedPeers) ==
    LET reconnectedCount == Cardinality(partition.affectedPeers \cap newConnectedPeers)
    IN  IF 100 * reconnectedCount >= healedPct * Cardinality(partition.affectedPeers)
        THEN "healed"
        ELSE IF partition.healingAttempts >= maxRecoveryAttempts
        THEN "permanent"
        ELSE partition.status

FinishHealing(id) ==
    /\ id \in healing
    /\ healing' = healing \ {id}
    /\ networkPartitions' = [networkPartitions EXCEPT
           ![id].status = HealingOutcome(networkPartitions[id], connectedPeers)]
    /\ UNCHANGED <<knownPeers, connectedPeers, healthChecks, partitionEvents>>
    /\ UNCHANGED <<breakerVars, securityVars, netVars, routeVars, lifeVars, remoteVars, lookupVars, frameVars, selectVars, executionFailures, verifVars, dispatchVars, sent, orchVars>>

PartitionInit ==
    /\ knownPeers = {}
    /\ connectedPeers = {}
    /\ networkPartitions = [id \in PartitionIds |-> NoPartition]
    /\ healthChecks = 0
    /\ healing = {}
    /\ partitionEvents = {}

PartitionNext ==
    \/ \E known \in KnownSets : KnownPeersChange(known)
    \/ \E connected \in ConnectedSets : ConnectedPeersChange(connected)
    \/ DetectAndHandlePartitions
    \/ \E id \in PartitionIds : FinishHealing(id)

\* ---- circuit breakers and security monitor ----
Services == {"network", "dht", "verification", "discovery"}
ThreatTypes == {"malicious_peer", "spam_detected", "ddos_attempt", "invalid_signature"}

\* The alert quarantinePeer hands to sendMessage: a peer_discovery frame whose
\* data says security_alert.
SecurityAlertFrame(to, maliciousPeer) ==
    [type |-> "peer_discovery", to |-> to, dataType |-> "security_alert",
     maliciousPeer |-> maliciousPeer]

\* The part of the node's state the mitigation of threats works on.
MitigationState ==
    [blacklistedPeers |-> blacklistedPeers, trustedPeers |-> trustedPeers,
     securityEvents |-> securityEvents, circuitBreakers |-> circuitBreakers,
     connections |-> connections, dataChannels |-> dataChannels,
     peers |-> peers, sent |-> sent]

\* quarantinePeer: blacklist, drop from the trusted set, disconnect, and send
\* the alert to the trusted peers a channel is open to.
QuarantinePeer(st, peerId) ==
    [st EXCEPT
       !.blacklistedPeers = @ \cup {peerId},
       !.trustedPeers = @ \ {peerId},
       !.connections = @ \ {peerId},
       !.dataChannels = [@ EXCEPT ![peerId] = "none"],
       !.peers = UpdatePeerStatus(@, peerId, "disconnected"),
       !.sent = @ \cup {SecurityAlertFrame(t, peerId) :
                          t \in {u \in st.trustedPeers :
                                   u # peerId /\ st.dataChannels[u] = "open"}}]

\* activateCircuitBreaker: it does not look at failureCount or threshold.
ActivateCircuitBreaker(st, service) ==
    [st EXCEPT !.circuitBreakers[service].state = "open",
               !.circuitBreakers[service].resetTime = now + breakerTimeout]

\* mitigateSecurityThreat for one threat
Mitigate(st, threat) ==
    LET handled ==
            CASE threat.type = "malicious_peer" -> QuarantinePeer(st, threat.source)
              [] threat.type = "ddos_attempt" -> ActivateCircuitBreaker(st, "network")
              [] OTHER -> st
    IN  [handled EXCEPT !.securityEvents = @ \cup
             {[id |-> Cardinality(st.securityEvents) + 1, type |-> threat.type,
               source |-> threat.source]}]

RECURSIVE MitigateAll(_, _)
MitigateAll(st, threats) ==
    IF threats = <<>> THEN st
    ELSE MitigateAll(Mitigate(st, Head(threats)), Tail(threats))

\* The state after the mitigation becomes the node's state.
Mitigated(st) ==
    /\ blacklistedPeers' = st.blacklistedPeers
    /\ trustedPeers' = st.trustedPeers
    /\ securityEvents' = st.securityEvents
    /\ circuitBreakers' = st.circuitBreakers
    /\ connections' = st.connections
    /\ dataChannels' = st.dataChannels
    /\ peers' = st.peers
    /\ sent' = st.sent
    /\ UNCHANGED <<now, connectionAttempts, retryTimers, connectReturned, partitionVars>>
    /\ UNCHANGED <<routeVars, lifeVars, remoteVars, lookupVars, frameVars, selectVars, executionFailures, verifVars, dispatchVars, orchVars>>

\* mitigateSecurityThreat, for the threat types it handles.  The detectors of
\* this class produce malicious_peer threats only; detectSpamThreats returns
\* none.
MitigateSecurityThreat(threat) ==
    /\ Cardinality(securityEvents) < MaxThreats
    /\ Mitigated(Mitigate(MitigationState, threat))

\* The reputation records TaskVerification.getReputationScores can return for
\* a peer: a clean one, one with a score below 0.2 after 6 verifications, one
\* with an error rate above 0.5 and a score of 0.2 after 15, and one with
\* score 0 after only 5.
ReputationSamples ==
    {[total |-> 12, correct |-> 12, falsePositives |-> 0, falseNegatives |-> 0],
     [total |-> 6, correct |-> 0, falsePositives |-> 6, falseNegatives |-> 0],
     [total |-> 15, correct |-> 7, falsePositives |-> 0, falseNegatives |-> 8],
     [total |-> 5, correct |-> 0, falsePositives |-> 5, falseNegatives |-> 0]}

\* The lists getReputationScores can return: one entry per peer at most.
ReputationLists ==
    {reps \in UNION {[1..n -> [peerId : NetPeers, rep : ReputationSamples]] :
                       n \in 0..MaxNetPeers} :
        \A i, j \in DOMAIN reps : reps[i].peerId = reps[j].peerId => i = j}

\* the two tests of detectMaliciousPeers
IsMalicious(rep) ==
    \/ /\ 100 * ScoreNum(rep) < lowScorePct * ScoreDen(rep)
       /\ rep.total > lowScoreMinVerifications
    \/ /\ 100 * (rep.falsePositives + rep.falseNegatives) > errorRatePct * rep.total
       /\ rep.total > errorRateMinVerifications

\* detectMaliciousPeers as the list of threats detectSecurityThreats builds
DetectMaliciousPeers(reps) ==
    LET malicious == SelectSeq(reps, LAMBDA r : IsMalicious(r.rep))
    IN  [i \in 1..Len(malicious) |->
            [type |-> "malicious_peer", source |-> malicious[i].peerId]]

\* detectSecurityThreats, run by the security monitor timer: every threat is
\* mitigated in turn; nothing in between awaits a timer or the network.
DetectSecurityThreats(reps) ==
    /\ Cardinality(securityEvents) + Len(DetectMaliciousPeers(reps)) <= MaxThreats
    /\ Mitigated(MitigateAll(MitigationState, DetectMaliciousPeers(reps)))

\* addTrustedPeer
AddTrustedPeer(peerId) ==
    /\ trustedPeers' = trustedPeers \cup {peerId}
    /\ blacklistedPeers' = blacklistedPeers \ {peerId}
    /\ UNCHANGED <<securityEvents, breakerVars, partitionVars>>
    /\ UNCHANGED <<netVars, routeVars, lifeVars, remoteVars, lookupVars, frameVars, selectVars, executionFailures, verifVars, dispatchVars, sent, orchVars>>

\* removeTrustedPeer
RemoveTrustedPeer(peerId) ==
    /\ trustedPeers' = trustedPeers \ {peerId}
    /\ UNCHANGED <<blacklistedPeers, securityEvents, breakerVars, partitionVars>>
    /\ UNCHANGED <<netVars, routeVars, lifeVars, remoteVars, lookupVars, frameVars, selectVars, executionFailures, verifVars, dispatchVars, sent, orchVars>>

\* updateCircuitBreakers, run by the recovery timer
UpdateCircuitBreakers ==
    /\ circuitBreakers' =
           [service \in Services |->
               IF circuitBreakers[service].state = "open"
                  /\ now >= circuitBreakers[service].resetTime
               THEN [circuitBreakers[service] EXCEPT !.state = "half_open",
                                                     !.failureCount = 0]
               ELSE circuitBreakers[service]]
    /\ UNCHANGED <<now, securityVars, partitionVars>>
    /\ UNCHANGED <<netVars, routeVars, lifeVars, remoteVars, lookupVars, frameVars, selectVars, executionFailures, verifVars, dispatchVars, sent, orchVars>>

\* Time passes, one period of the recovery timer at a time.
AdvanceTime ==
    /\ now < MaxNow
    /\ now' = now + recoveryCheckInterval
    /\ UNCHANGED <<circuitBreakers, securityVars, partitionVars>>
    /\ UNCHANGED <<netVars, routeVars, lifeVars, remoteVars, lookupVars, frameVars, selectVars, executionFailures, verifVars, dispatchVars, sent, orchVars>>

\* forceNetworkReset up to its await: every peer is disconnected, the
\* breakers are closed and the blacklist is cleared.
ForceNetworkReset ==
    /\ connections' = connections \ GetConnectedPeers
    /\ dataChannels' = [p \in NetPeers |->
                           IF p \in GetConnectedPeers THEN "none" ELSE dataChannels[p]]
    /\ peers' = [p \in NetPeers |->
                    IF p \in GetConnectedPeers /\ peers[p] # "none"
                    THEN "disconnected" ELSE peers[p]]
    /\ circuitBreakers' = [service \in Services |->
                              [circuitBreakers[service] EXCEPT !.state = "closed",
                                                               !.failureCount = 0]]
    /\ blacklistedPeers' = {}
    /\ UNCHANGED <<now, trustedPeers, securityEvents, connectionAttempts, retryTimers,
                   connectReturned, partitionVars>>
    /\ UNCHANGED <<routeVars, lifeVars, remoteVars, lookupVars, frameVars, selectVars, executionFailures, verifVars, dispatchVars, sent, orchVars>>

BreakerInit ==
    /\ circuitBreakers = [service \in Services |->
                             [state |-> "closed", failureCount |-> 0, resetTime |-> 0]]
    /\ now = 0

SecurityInit ==
    /\ blacklistedPeers = {}
    /\ trustedPeers = {}
    /\ securityEvents = {}

BreakerNext ==
    \/ \E type \in ThreatTypes \ {"malicious_peer"}, source \in NetPeers :
          MitigateSecurityThreat([type |-> type, source |-> source])
    \/ UpdateCircuitBreakers
    \/ AdvanceTime
    \/ ForceNetworkReset

\* handleSecurityAlert for a security_alert frame handed to the resilience
\* component's 'message' listener: an alert of a trusted sender blacklists
\* the peer it names and disconnects it.
HandleSecurityAlert(from, maliciousPeer) ==
    /\ IF from \in trustedPeers
       THEN /\ blacklistedPeers' = blacklistedPeers \cup {maliciousPeer}
            /\ CleanupPeerConnection(maliciousPeer)
       ELSE UNCHANGED <<blacklistedPeers, peers, connections, dataChannels>>
    /\ connectReturned' = NoReturn
    /\ UNCHANGED <<trustedPeers, securityEvents, breakerVars, partitionVars,
                   connectionAttempts, retryTimers>>
    /\ UNCHANGED <<routeVars, lifeVars, remoteVars, lookupVars, frameVars, selectVars, executionFailures, verifVars, dispatchVars, sent, orchVars>>

SecurityNext ==
    \/ \E reps \in ReputationLists : DetectSecurityThreats(reps)
    \/ \E p \in NetPeers : AddTrustedPeer(p)
    \/ \E p \in NetPeers : RemoveTrustedPeer(p)
    \/ \E p \in NetPeers : HandlePeerDiscovery(p)
    \/ \E p \in NetPeers, created \in BOOLEAN : ConnectToPeer(p, created)
    \/ \E p \in NetPeers : DataChannelOpen(p)

ResInit == PartitionInit /\ BreakerInit /\ SecurityInit

(***************************************************************************)
(*                  O R C H E S T R A T O R   L I F E C Y C L E            *)
(***************************************************************************)
\* The configurations the constructor can be given; the default enables
\* Resilience and has no trusted peers.
DefaultConfig == [networkResilience |-> TRUE, trustedPeers |-> {}]
Configs == [networkResilience : BOOLEAN, trustedPeers : SUBSET NetPeers]

\* The order with Discovery before Verification.
InitializeOrder_DiscoveryFirst(cfg) ==
    <<"deviceMonitor", "networkManager", "dhtDistribution", "peerDiscovery",
      "taskVerification">>
    \o (IF cfg.networkResilience THEN <<"networkResilience">> ELSE <<>>)

\* The initialize calls of P2POrchestrator.initialize, in program order.
InitializeOrder(cfg) ==
    <<"deviceMonitor", "networkManager", "dhtDistribution", "taskVerification",
      "peerDiscovery">>
    \o (IF cfg.networkResilience THEN <<"networkResilience">> ELSE <<>>)

\* The shutdown calls of P2POrchestrator.shutdown, in program order.
ShutdownOrder(cfg) ==
    (IF cfg.networkResilience THEN <<"networkResilience">> ELSE <<>>)
    \o <<"peerDiscovery", "taskVerification", "dhtDistribution", "networkManager",
         "deviceMonitor">>

\* P2POrchestrator.initialize up to its first await.
OrchInitialize ==
    /\ ~isInitialized
    /\ ~initializing
    /\ initializing' = TRUE
    /\ initStarted' = <<InitializeOrder(config)[1]>>
    /\ initDone' = <<>>
    /\ shutdownLog' = <<>>
    /\ UNCHANGED <<config, isInitialized, recoveries, recoveryActions, remoteVars, lookupVars, frameVars, selectVars, executionFailures>>
    /\ UNCHANGED <<resVars, netVars, routeVars, verifVars, dispatchVars, sent, orchVars>>

\* The awaited initialize of a component returns (ok) or throws.  After the
\* last one the trusted peers of the configuration are added.
OrchInitializeStep(ok) ==
    /\ initializing
    /\ LET c == initStarted[Len(initStarted)]
           last == Len(initStarted) = Len(InitializeOrder(config))
       IN  IF ~ok
           THEN /\ initializing' = FALSE
                /\ UNCHANGED <<initStarted, initDone, isInitialized, trustedPeers,
                               blacklistedPeers>>
           ELSE /\ initializing' = ~last
                /\ initDone' = Append(initDone, c)
                /\ initStarted' =
                      IF last THEN initStarted
                      ELSE Append(initStarted,
                                  InitializeOrder(config)[Len(initStarted) + 1])
                /\ isInitialized' = last
                /\ trustedPeers' =
                      IF last THEN trustedPeers \cup config.trustedPeers
                      ELSE trustedPeers
                /\ blacklistedPeers' =
                      IF last THEN blacklistedPeers \ config.trustedPeers
                      ELSE blacklistedPeers
    /\ UNCHANGED <<config, shutdownLog, recoveries, recoveryActions, remoteVars, lookupVars, frameVars, selectVars, executionFailures>>
    /\ UNCHANGED <<securityEvents, breakerVars, partitionVars>>
    /\ UNCHANGED <<netVars, routeVars, verifVars, dispatchVars, sent, orchVars>>

\* P2POrchestrator.shutdown.  No component's shutdown awaits anything, so the
\* whole call is one step.  TaskVerification.shutdown clears the deadline
\* timers and P2PNetworkManager.shutdown cleans every connection up; the
\* shutdown of DHTTaskDistribution, PeerDiscovery and NetworkResilience clear
\* their intervals only.
OrchShutdown ==
    /\ isInitialized
    /\ isInitialized' = FALSE
    /\ shutdownLog' = ShutdownOrder(config)
    /\ verificationTimeouts' = {}
    /\ verificationShutdown' = TRUE
    /\ connections' = {}
    /\ dataChannels' = [p \in NetPeers |-> "none"]
    /\ peers' = [p \in NetPeers |->
                    IF p \in connections /\ peers[p] # "none"
                    THEN "disconnected" ELSE peers[p]]
    /\ connectReturned' = NoReturn
    /\ UNCHANGED <<config, initializing, initStarted, initDone, recoveries, recoveryActions, remoteVars, lookupVars, frameVars, selectVars, executionFailures>>
    /\ UNCHANGED <<connectionAttempts, retryTimers>>
    /\ UNCHANGED <<nextVerification, pendingVerifications, verificationRequests,
                   verificationResults, completedVerifications, results,
                   reputationScores, finalizations, deadlineFired>>
    /\ UNCHANGED <<resVars, routeVars, dispatchVars, sent, orchVars>>

NoRecovery == [attempts |-> 0, success |-> "none"]

LifeInit ==
    /\ config = DefaultConfig
    /\ isInitialized = FALSE
    /\ initializing = FALSE
    /\ initStarted = <<>>
    /\ initDone = <<>>
    /\ shutdownLog = <<>>
    /\ recoveries = [p \in NetPeers |-> 0]
    /\ recoveryActions = [p \in NetPeers |-> NoRecovery]

\* connection.onconnectionstatechange for 'disconnected' or 'failed' with
\* the listener NetworkResilience has on 'peer_disconnected': handlePeerFailure
\* runs up to the backoff of its first attempt.
PeerDisconnected(p, state) ==
    /\ p \in connections
    /\ peers' = UpdatePeerStatus(peers, p, state)
    /\ retryTimers' = IF state = "failed" THEN retryTimers \cup {p} ELSE retryTimers
    /\ connectReturned' = NoReturn
    /\ recoveries' = [recoveries EXCEPT ![p] = 1]
    /\ recoveryActions' = [recoveryActions EXCEPT ![p] = [attempts |-> 0, success |-> "unset"]]
    /\ UNCHANGED <<connections, dataChannels, connectionAttempts>>
    /\ UNCHANGED <<config, isInitialized, initializing, initStarted, initDone, shutdownLog,
                   remoteVars, lookupVars, frameVars, selectVars, executionFailures>>
    /\ UNCHANGED <<resVars, routeVars, verifVars, dispatchVars, sent, orchVars>>

\* The backoff of a handlePeerFailure loop ends.  known: PeerDiscovery has
\* the peer in its catalog, without which its connectToPeer returns false
\* before calling the Peer Manager.  The loop ends when the connect returned
\* true; after maxRecoveryAttempts it goes on to findReplacementPeer.
RecoveryBackoffFires(p, known, created) ==
    /\ recoveries[p] \in 1..maxRecoveryAttempts
    /\ IF known
       THEN ConnectToPeerBody(p, created)
       ELSE UNCHANGED <<peers, connections, dataChannels, connectionAttempts,
                        connectReturned>>
    /\ recoveries' =
          [recoveries EXCEPT ![p] =
              IF known /\ connectReturned'.value THEN 0 ELSE @ + 1]
    /\ recoveryActions' =
          [recoveryActions EXCEPT ![p] =
              [attempts |-> recoveries[p],
               success |-> IF known /\ connectReturned'.value THEN "true" ELSE @.success]]
    /\ UNCHANGED retryTimers
    /\ UNCHANGED <<config, isInitialized, initializing, initStarted, initDone, shutdownLog,
                   remoteVars, lookupVars, frameVars, selectVars, executionFailures>>
    /\ UNCHANGED <<resVars, routeVars, verifVars, dispatchVars, sent, orchVars>>

\* findReplacementPeer after the third attempt failed: candidates are the
\* known peers of similar capabilities that are not blacklisted, at most
\* three; the first is connected to.  Then the action is marked unsuccessful.
FindReplacementPeer(p, candidates, created) ==
    /\ recoveries[p] = maxRecoveryAttempts + 1
    /\ \A i \in 1..Len(candidates) :
          candidates[i] # p /\ candidates[i] \notin blacklistedPeers
    /\ IF candidates # <<>> /\ peers[p] # "none"
       THEN ConnectToPeerBody(candidates[1], created)
       ELSE UNCHANGED <<peers, connections, dataChannels, connectionAttempts,
                        connectReturned>>
    /\ recoveries' = [recoveries EXCEPT ![p] = 0]
    /\ recoveryActions' = [recoveryActions EXCEPT ![p].success = "false"]
    /\ UNCHANGED retryTimers
    /\ UNCHANGED <<config, isInitialized, initializing, initStarted, initDone, shutdownLog,
                   remoteVars, lookupVars, frameVars, selectVars, executionFailures>>
    /\ UNCHANGED <<resVars, routeVars, verifVars, dispatchVars, sent, orchVars>>

\* The one requirement, the lookup replies and the one remote peer used
\* around a shutdown.
ShutdownRequirement == [cpuCores |-> 1, memoryGB |-> 1, gpuRequired |-> FALSE]
ShutdownLookups == {nodes \in LookupResults : Len(nodes) <= 1}
ShutdownPeers == {p \in NetPeers : p <= 1}

\* The orchestrator booting and shutting down while tasks are dispatched,
\* verifications requested and connections made and lost.  The orchestrator
\* refuses submitTask unless it is initialized, and the components make
\* their own calls only between boot and shutdown; timers, awaited lookups
\* and backoffs run on regardless.
ShutdownNext ==
    \/ OrchInitialize
    \/ OrchInitializeStep(TRUE)
    \/ OrchShutdown
    \/ isInitialized /\ SubmitTask(ShutdownRequirement)
    \/ \E t \in TaskIds, nodes \in ShutdownLookups : SubmitTaskAssign(t, nodes)
    \/ \E t \in TaskIds : HandleTaskTimeout(t)
    \/ \E t \in TaskIds, p \in ShutdownPeers :
          isInitialized /\ RequestVerification(t, p, ShutdownRequirement)
    \/ \E v \in VerifIds : HandleVerificationTimeout(v)
    \/ \E p \in ShutdownPeers, created \in BOOLEAN :
          (isInitialized \/ initializing) /\ ConnectToPeer(p, created)
    \/ \E p \in ShutdownPeers, state \in {"disconnected", "failed"} :
          PeerDisconnected(p, state)
    \/ \E p \in ShutdownPeers, created \in BOOLEAN : RetryTimerFires(p, created)
    \/ \E p \in ShutdownPeers, known, created \in BOOLEAN :
          RecoveryBackoffFires(p, known, created)
    \/ \E p \in ShutdownPeers : FindReplacementPeer(p, <<>>, FALSE)

LifeNext ==
    \/ OrchInitialize
    \/ \E ok \in BOOLEAN : OrchInitializeStep(ok)
    \/ OrchShutdown

(***************************************************************************)
(* The iterative node lookup (performNodeLookup).  A round is the await of  *)
(* Promise.allSettled: every query of the round has been answered by the    *)
(* queried node from its routing table, or rejected by its 5 s timer or by  *)
(* a failed send.                                                           *)
(***************************************************************************)
LookupNodes == 1..MaxLookupNodes
LookupTarget == 0
LookupDistance(n) == CalculateXORDistance(LookupTarget, n)

\* Array.prototype.sort with (a, b) => a.distance - b.distance: stable, ascending.
RECURSIVE InsertByDistance(_, _)
InsertByDistance(sorted, n) ==
    IF sorted = <<>> THEN <<n>>
    ELSE IF LookupDistance(Head(sorted)) <= LookupDistance(n)
         THEN <<Head(sorted)>> \o InsertByDistance(Tail(sorted), n)
         ELSE <<n>> \o sorted

RECURSIVE SortByDistance(_)
SortByDistance(nodes) ==
    IF nodes = <<>> THEN <<>>
    ELSE InsertByDistance(SortByDistance(SubSeq(nodes, 1, Len(nodes) - 1)),
                          nodes[Len(nodes)])

RECURSIVE NodesOf(_)
NodesOf(S) ==
    IF S = {} THEN <<>>
    ELSE LET n == CHOOSE x \in S : \A y \in S : x <= y
         IN  <<n>> \o NodesOf(S \ {n})

Slice(nodes, count) == SubSeq(nodes, 1, Min(count, Len(nodes)))

\* getClosestNodes over a routing table holding the nodes of S
GetClosestNodes(S, count) == Slice(SortByDistance(NodesOf(S)), count)

\* The routing tables of the remote nodes: every node knows all others; node
\* 1 knows four nodes that know only node 1; every node knows its successor.
LookupNets == {"clique", "fan", "ring"}
NodeTable(net, n) ==
    CASE net = "clique" -> LookupNodes \ {n}
      [] net = "fan" -> IF n = 1 THEN {2, 3, 4, 5} ELSE {1}
      [] OTHER -> {(n % MaxLookupNodes) + 1}

\* handlePeerDiscoveryRequest of the queried node
FindNodeReply(net, n) == GetClosestNodes(NodeTable(net, n), k)

\* The inner loop over the nodes of one fulfilled result.
RECURSIVE ProcessNodes(_, _)
ProcessNodes(acc, nodes) ==
    IF nodes = <<>> THEN acc
    ELSE LET n == Head(nodes)
             added == [acc EXCEPT !.candidates = Append(@, n)]
         IN  ProcessNodes(
                 IF n \notin acc.visited /\ Len(acc.active) < alpha
                 THEN [added EXCEPT !.visited = @ \cup {n}, !.active = Append(@, n)]
                 ELSE added,
                 Tail(nodes))

\* The loop over the settled results, in the order of activeQueries.
RECURSIVE ProcessResults(_, _, _, _)
ProcessResults(acc, net, queries, fulfilled) ==
    IF queries = <<>> THEN acc
    ELSE ProcessResults(
             IF Head(queries) \in fulfilled
             THEN ProcessNodes(acc, FindNodeReply(net, Head(queries)))
             ELSE acc,
             net, Tail(queries), fulfilled)

LookupReturn(candidates) == Slice(SortByDistance(candidates), k)

\* performNodeLookup up to its first await; initial is what the local
\* routing table holds.
StartLookup(net, initial) ==
    LET initialNodes == GetClosestNodes(initial, alpha)
    IN  /\ lookupPhase = "idle"
        /\ lookupNet' = net
        /\ lookupVisited' = {initialNodes[i] : i \in 1..Len(initialNodes)}
        /\ lookupActive' = initialNodes
        /\ lookupQueries' = initialNodes
        /\ lookupCandidates' = <<>>
        /\ IF initialNodes = <<>>
           THEN lookupPhase' = "done" /\ lookupResult' = LookupReturn(<<>>)
           ELSE lookupPhase' = "running" /\ lookupResult' = <<>>
        /\ UNCHANGED <<verifVars, dispatchVars, sent, orchVars, netVars, routeVars,
                       resVars, lifeVars, remoteVars, selectVars, executionFailures,
                       frameVars>>

\* One pass of the while loop: the round's queries settle, fulfilled being
\* the ones that were answered.
LookupRound(fulfilled) ==
    LET acc == ProcessResults([candidates |-> lookupCandidates,
                               visited |-> lookupVisited, active |-> <<>>],
                              lookupNet, lookupActive, fulfilled)
    IN  /\ lookupPhase = "running"
        /\ fulfilled \subseteq {lookupActive[i] : i \in 1..Len(lookupActive)}
        /\ lookupCandidates' = acc.candidates
        /\ lookupVisited' = acc.visited
        /\ lookupActive' = acc.active
        /\ lookupQueries' = lookupQueries \o acc.active
        /\ IF Len(acc.candidates) >= k \/ acc.active = <<>>
           THEN lookupPhase' = "done" /\ lookupResult' = LookupReturn(acc.candidates)
           ELSE UNCHANGED <<lookupPhase, lookupResult>>
        /\ UNCHANGED lookupNet
        /\ UNCHANGED <<verifVars, dispatchVars, sent, orchVars, netVars, routeVars,
                       resVars, lifeVars, remoteVars, selectVars, executionFailures,
                       frameVars>>

LookupInit ==
    /\ lookupPhase = "idle"
    /\ lookupNet = "clique"
    /\ lookupVisited = {}
    /\ lookupActive = <<>>
    /\ lookupCandidates = <<>>
    /\ lookupQueries = <<>>
    /\ lookupResult = <<>>

LookupNext ==
    \/ \E net \in LookupNets, initial \in SUBSET LookupNodes : StartLookup(net, initial)
    \/ \E fulfilled \in SUBSET LookupNodes : LookupRound(fulfilled)

(***************************************************************************)
(* Frames arriving on an open data channel (dataChannel.onmessage ->        *)
(* handleIncomingMessage), the 'message' listeners of the routing layer,    *)
(* and the promises of queryNode.                                           *)
(***************************************************************************)
RequestIds == 1..MaxRequestIds
\* The types setupMessageHandlers registers a handler for.
MessageHandlers == {"ping", "pong", "peer_discovery"}

FindNodeRequest(p, r) ==
    [type |-> "peer_discovery", from |-> p, query |-> "find_node", requestId |-> r]
FindNodeResponse(p, r) ==
    [type |-> "peer_discovery", from |-> p, query |-> "none", requestId |-> r]
OtherFrame(p, type) == [type |-> type, from |-> p, query |-> "none", requestId |-> 0]
IncomingFrames ==
    {FindNodeRequest(p, r) : p \in NetPeers, r \in RequestIds}
        \cup {FindNodeResponse(p, r) : p \in NetPeers, r \in RequestIds}
        \cup {OtherFrame(p, type) : p \in NetPeers, type \in {"ping", "task_response"}}

\* handlePeerDiscoveryRequest: the answer to a find_node query
HandlePeerDiscoveryRequest(f) ==
    IF f.query = "find_node"
    THEN replyFrames \cup {[type |-> "peer_discovery", to |-> f.from,
                            requestId |-> f.requestId]}
    ELSE replyFrames

\* handleDHTMessage: the routing layer's listener of 'message'
HandleDHTMessage(f) ==
    IF f.type = "peer_discovery" THEN HandlePeerDiscoveryRequest(f) ELSE replyFrames

\* The handler each pending queryNode registered: it tests the type and
\* compares the frame's requestId with itself.
QueryHandlerAccepts(f, r) == f.type = "peer_discovery" /\ f.requestId = f.requestId

\* this.emit('message', f): every listener runs.
EmitMessage(f) ==
    /\ messageEvents' = messageEvents \cup {f}
    /\ replyFrames' = HandleDHTMessage(f)
    /\ pendingQueries' = {r \in pendingQueries : ~QueryHandlerAccepts(f, r)}
    /\ queryCompletions' =
          queryCompletions \cup
              {[query |-> r, by |-> f.requestId] :
                   r \in {q \in pendingQueries : QueryHandlerAccepts(f, q)}}

\* handleIncomingMessage: a registered handler consumes the frame, any other
\* type is emitted.  The 'peer_discovery' handler reads data.peers, which a
\* find_node frame does not carry; onmessage catches the TypeError.
HandleIncomingMessage(f) ==
    /\ dataChannels[f.from] = "open"
    /\ findNodeReceived' =
          IF f.query = "find_node" THEN findNodeReceived \cup {f} ELSE findNodeReceived
    /\ IF f.type \in MessageHandlers
       THEN /\ replyFrames' =
                  IF f.type = "ping"
                  THEN replyFrames \cup {[type |-> "pong", to |-> f.from, requestId |-> 0]}
                  ELSE replyFrames
            /\ UNCHANGED <<messageEvents, pendingQueries, queryCompletions>>
       ELSE EmitMessage(f)
    /\ UNCHANGED <<verifVars, dispatchVars, sent, orchVars, netVars, routeVars, resVars,
                   lifeVars, remoteVars, selectVars, executionFailures, lookupVars>>

\* queryNode: the frame is handed to the channel and the handler registered.
QueryNode(p, r) ==
    /\ dataChannels[p] = "open"
    /\ r \notin pendingQueries
    /\ pendingQueries' = pendingQueries \cup {r}
    /\ UNCHANGED <<findNodeReceived, messageEvents, replyFrames, queryCompletions>>
    /\ UNCHANGED <<verifVars, dispatchVars, sent, orchVars, netVars, routeVars, resVars,
                   lifeVars, remoteVars, selectVars, executionFailures, lookupVars>>

\* The 5 s timer of queryNode rejects the promise.
QueryTimeout(r) ==
    /\ r \in pendingQueries
    /\ pendingQueries' = pendingQueries \ {r}
    /\ UNCHANGED <<findNodeReceived, messageEvents, replyFrames, queryCompletions>>
    /\ UNCHANGED <<verifVars, dispatchVars, sent, orchVars, netVars, routeVars, resVars,
                   lifeVars, remoteVars, selectVars, executionFailures, lookupVars>>

FrameInit ==
    /\ findNodeReceived = {}
    /\ messageEvents = {}
    /\ replyFrames = {}
    /\ pendingQueries = {}
    /\ queryCompletions = {}

FrameNext ==
    \/ \E f \in IncomingFrames : HandleIncomingMessage(f)
    \/ \E p \in NetPeers, r \in RequestIds : QueryNode(p, r)
    \/ \E r \in RequestIds : QueryTimeout(r)
    \/ \E p \in NetPeers : HandlePeerDiscovery(p)
    \/ \E p \in NetPeers, created \in BOOLEAN : ConnectToPeer(p, created)
    \/ \E p \in NetPeers : DataChannelOpen(p)

(***************************************************************************)
(*                        S P E C I F I C A T I O N S                      *)
(***************************************************************************)
Init ==
    /\ VerifInit /\ DispatchInit /\ OrchestratorInit /\ sent = {}
    /\ NetInit /\ RouteInit /\ ResInit /\ LifeInit /\ RemoteInit /\ SelectInit /\ ExecInit /\ LookupInit /\ FrameInit

VerifNext ==
    \/ \E t \in AnyTask, p \in KnownPeers, req \in Requirements :
          RequestVerification(t, p, req)
    \/ \E v \in VerifIds, p \in Responders, isValid \in BOOLEAN, sig \in {"", "sig"} :
          ProcessVerificationResponse(v, p, isValid, sig)
    \/ \E v \in VerifIds : HandleVerificationTimeout(v)
    \/ VerificationShutdown

\* The remote verifiers whose handlers run.
Verifiers == {p \in RemotePeers : p < MaxResponders}

\* Verification with the selected verifiers handling the delivered requests
\* and signed responses coming in.
VerifiersNext ==
    \/ \E t \in AnyTask, p \in KnownPeers, req \in Requirements :
          RequestVerification(t, p, req)
    \/ \E v \in VerifIds, p \in Verifiers : HandleIncomingVerificationRequest(p, v)
    \/ \E v \in VerifIds, p \in Verifiers, isValid \in BOOLEAN :
          ProcessVerificationResponse(v, p, isValid, "sig")
    \/ \E v \in VerifIds : HandleVerificationTimeout(v)

DispatchNext ==
    \/ \E req \in Requirements : SubmitTask(req)
    \/ \E t \in TaskIds, nodes \in LookupResults : SubmitTaskAssign(t, nodes)
    \/ \E t \in TaskIds : HandleTaskTimeout(t)
    \/ \E t \in AnyTask, d \in {"accept", "reject"} : AcceptTask(t, d)
    \/ \E t \in AnyTask, a \in AnyPeer, d \in {"accept", "reject"} :
          HandleIncomingTaskRequest(t, a, d)

\* The remote peers whose task_result frames are delivered.
ResultSenders == {p \in RemotePeers : p < MaxResponders}

\* Dispatch with the task_result frames of remote peers coming in.
DispatchResultNext ==
    \/ DispatchNext
    \/ \E t \in TaskIds, p \in ResultSenders : HandleTaskResult(t, p)

SpecVerification == Init /\ [][VerifNext]_vars
SpecVerifiers == Init /\ [][VerifiersNext]_vars
SpecDispatch == Init /\ [][DispatchNext]_vars
SpecDispatchResults == Init /\ [][DispatchResultNext]_vars
SpecNet == Init /\ [][NetNext]_vars
InitRouting ==
    /\ VerifInit /\ DispatchInit /\ OrchestratorInit /\ sent = {} /\ NetInit
    /\ (RouteInit \/ FullBucketInit)
    /\ ResInit /\ LifeInit /\ RemoteInit /\ SelectInit /\ ExecInit /\ LookupInit /\ FrameInit
SpecRouting == InitRouting /\ [][RouteNext]_vars
SpecPartition == Init /\ [][PartitionNext]_vars
SpecBreaker == Init /\ [][BreakerNext]_vars
SpecSecurity == Init /\ [][SecurityNext]_vars
\* The orchestrator constructed with any configuration.
InitLifecycle ==
    /\ VerifInit /\ DispatchInit /\ OrchestratorInit /\ sent = {}
    /\ NetInit /\ RouteInit /\ ResInit /\ RemoteInit /\ SelectInit /\ ExecInit /\ LookupInit /\ FrameInit
    /\ config \in Configs
    /\ isInitialized = FALSE
    /\ initializing = FALSE
    /\ initStarted = <<>>
    /\ initDone = <<>>
    /\ shutdownLog = <<>>
    /\ recoveries = [p \in NetPeers |-> 0]
    /\ recoveryActions = [p \in NetPeers |-> NoRecovery]
SpecLifecycle == InitLifecycle /\ [][LifeNext]_vars
SpecShutdown == Init /\ [][ShutdownNext]_vars
\* The health check timer keeps firing and every healing attempt returns.
SpecPartitionLive ==
    /\ SpecPartition
    /\ WF_vars(DetectAndHandlePartitions)
    /\ WF_vars(\E id \in PartitionIds : FinishHealing(id))

\* The scenario of five verifiers answering one request: four with
\* isValid = true and one (peer 4) with isValid = false, in any order.
ScenarioVotes == [p \in 0..4 |-> p # 4]

FourOfFiveNext ==
    \/ \E t \in AnyTask, p \in KnownPeers, req \in Requirements :
          RequestVerification(t, p, req)
    \/ \E v \in VerifIds, p \in DOMAIN ScenarioVotes :
          ProcessVerificationResponse(v, p, ScenarioVotes[p], "sig")

SpecFourOfFive == Init /\ [][FourOfFiveNext]_vars

\* Verification requested for light tasks and for one so heavy that only
\* three peers of the catalog can verify it.
HeavyCores == 4
HeavyMemory == 4
SelectionRequirements ==
    Requirements \cup {[cpuCores |-> HeavyCores, memoryGB |-> HeavyMemory,
                        gpuRequired |-> FALSE]}

SelectionNext ==
    \/ \E t \in AnyTask, p \in KnownPeers, req \in SelectionRequirements :
          RequestVerification(t, p, req)
    \/ \E v \in VerifIds, p \in Responders, isValid \in BOOLEAN :
          ProcessVerificationResponse(v, p, isValid, "sig")
    \/ \E v \in VerifIds : HandleVerificationTimeout(v)

SpecSelection == Init /\ [][SelectionNext]_vars
SpecLookup == Init /\ [][LookupNext]_vars
SpecFrames == Init /\ [][FrameNext]_vars

\* The trusted set and the blacklist under every operation that writes them.
AlertNext ==
    \/ \E reps \in ReputationLists : DetectSecurityThreats(reps)
    \/ \E p \in NetPeers : AddTrustedPeer(p)
    \/ \E p \in NetPeers : RemoveTrustedPeer(p)
    \/ \E from, maliciousPeer \in NetPeers : HandleSecurityAlert(from, maliciousPeer)
    \/ ForceNetworkReset
    \/ \E p \in NetPeers, created \in BOOLEAN : ConnectToPeer(p, created)
SpecAlerts == Init /\ [][AlertNext]_vars

\* Connections to one peer made and lost, the recovery loops of the
\* resilience component, and the other peers as replacement candidates.
ReplacementCandidates ==
    {<<>>} \cup {<<c>> : c \in NetPeers \ ShutdownPeers}
RecoveryNext ==
    \/ \E p \in ShutdownPeers : HandlePeerDiscovery(p)
    \/ \E p \in ShutdownPeers, created \in BOOLEAN : ConnectToPeer(p, created)
    \/ \E p \in ShutdownPeers : ConnectionStateChange(p, "connected")
    \/ \E p \in ShutdownPeers, state \in {"disconnected", "failed"} :
          PeerDisconnected(p, state)
    \/ \E p \in ShutdownPeers : DataChannelOpen(p)
    \/ \E p \in ShutdownPeers : DataChannelClose(p)
    \/ \E p \in ShutdownPeers, created \in BOOLEAN : RetryTimerFires(p, created)
    \/ \E p \in ShutdownPeers, known, created \in BOOLEAN :
          RecoveryBackoffFires(p, known, created)
    \/ \E p \in ShutdownPeers, candidates \in ReplacementCandidates, created \in BOOLEAN :
          FindReplacementPeer(p, candidates, created)
SpecRecovery == Init /\ [][RecoveryNext]_vars

\* The security monitor reading the reputation table of the verification
\* component, after the verifications that led to one of the sample counts.
MonitorSamples ==
    ReputationSamples \cup
        {[total |-> 10, correct |-> 4, falsePositives |-> 6, falseNegatives |-> 0]}
GetReputationScores ==
    [i \in 1..MaxNetPeers |-> [peerId |-> i, rep |-> reputationScores[i]]]
InitMonitor ==
    /\ pendingVerifications = {} /\ nextVerification = 1
    /\ verificationRequests = [v \in VerifIds |-> NoRequest]
    /\ verificationResults = {} /\ completedVerifications = {}
    /\ results = [v \in VerifIds |-> BlankResult]
    /\ verificationTimeouts = {}
    /\ \E samples \in [NetPeers -> MonitorSamples] :
          reputationScores =
              [p \in KnownPeers |-> IF p \in NetPeers THEN samples[p] ELSE NewReputation]
    /\ finalizations = [v \in VerifIds |-> 0]
    /\ deadlineFired = {} /\ verificationShutdown = FALSE
    /\ DispatchInit /\ OrchestratorInit /\ sent = {}
    /\ NetInit /\ RouteInit /\ ResInit /\ LifeInit /\ RemoteInit
    /\ SelectInit /\ ExecInit /\ LookupInit /\ FrameInit
MonitorNext ==
    \/ DetectSecurityThreats(GetReputationScores)
    \/ \E p \in NetPeers : AddTrustedPeer(p)
    \/ \E p \in NetPeers : RemoveTrustedPeer(p)
SpecMonitor == InitMonitor /\ [][MonitorNext]_vars

\* Timers fire: a completion timer that is armed is eventually run.
SpecDispatchLive ==
    SpecDispatch /\ WF_vars(\E t \in TaskIds : HandleTaskTimeout(t))

\* Every entry point of every component.
Next == VerifNext \/ DispatchResultNext \/ NetNext \/ RouteNext \/ PartitionNext
          \/ BreakerNext \/ SecurityNext \/ LifeNext \/ ShutdownNext \/ VerifiersNext
          \/ SelectionNext \/ LookupNext \/ FrameNext \/ RecoveryNext \/ AlertNext
Spec == Init /\ [][Next]_vars

(***************************************************************************)
(*                               C L A I M S                               *)
(***************************************************************************)

\* C1: every verification outcome that is finalized with consensus Approved
\* has at least 3 approvals and approvals / total responses >= 0.67.
C1_ApprovedHasQuorum ==
    \A v \in completedVerifications :
        results[v].consensus = "approved" =>
            /\ results[v].approvalCount >= 3
            /\ 100 * results[v].approvalCount >= 67 * results[v].verifierCount

\* C2: once an outcome is finalized, no later response and no deadline firing
\* alters its consensus, its counts or its response list, and it is not
\* finalized again.
C2_FinalizedOutcomeIsFrozen ==
    [][\A v \in completedVerifications :
          /\ results'[v] = results[v]
          /\ finalizations'[v] = finalizations[v]]_vars

\* C3: a task makes at most one terminal transition: it is never both
\* completed and failed and never completed or failed twice; while it is
\* Active it has made none, and it is in the completed table exactly when
\* its one transition was Active->Completed.
C3_OneTerminalTransition ==
    \A t \in TaskIds :
        /\ completions[t] + failures[t] <= 1
        /\ t \in activeTasks => completions[t] + failures[t] = 0
        /\ t \in completedTasks <=> completions[t] = 1

\* the task has ended and its completion timer has run as well
C3_Witness ==
    \E t \in TaskIds :
        /\ completions[t] + failures[t] = 1
        /\ t \notin activeTasks
        /\ t \notin taskTimers

C7_AssigneesSatisfyRequirements ==
    \A t \in TaskIds :
        taskAssignments[t] # NoAssignment =>
            LET a == taskAssignments[t]
                req == taskRequirements[t]
                chosen == {a.assignedTo} \cup
                            {a.backupPeers[i] : i \in 1..Len(a.backupPeers)}
            IN  \A p \in chosen :
                    /\ p \in KnownPeers
                    /\ PeerInfo(p).cpuCores >= req.cpuCores
                    /\ PeerInfo(p).ramGB >= req.memoryGB
                    /\ req.gpuRequired => PeerInfo(p).gpuAcceleration
                    /\ PeerInfo(p).thermalState # "critical"
                    /\ PeerInfo(p).reputation >= 50

\* a reassignment has happened and the promoted primary still has a backup
C7_Witness ==
    \E t \in TaskIds :
        /\ t \in activeTasks
        /\ t \notin taskTimers
        /\ Len(taskAssignments[t].backupPeers) >= 1

\* C8: when this node receives the TaskRequest of a task a remote node
\* submitted, is its primary assignee and the decision helper approves, its
\* accept executes the task.
C8_ReceivedApprovedIsExecuted ==
    RemoteTask \in receivedApproved => RemoteTask \in executed

C10_ShutdownFinalizesInFlight ==
    [][(verificationShutdown' /\ ~verificationShutdown) =>
          \A v \in pendingVerifications :
              /\ v \in completedVerifications'
              /\ results'[v].consensus \in {"approved", "rejected"}]_vars

\* C11: each verification outcome updates each of its responders once: a
\* peer's total never exceeds the number of outcomes it responded to, total =
\* correct + false positives + false negatives, and the score is in [0,1].
C11_ReputationUpdatedOncePerOutcome ==
    \A p \in KnownPeers :
        LET rep == reputationScores[p]
        IN  /\ rep.total <= Cardinality({v \in VerifIds : HasResponseFrom(results[v], p)})
            /\ rep.total = rep.correct + rep.falsePositives + rep.falseNegatives
            /\ 0 <= ScoreNum(rep) /\ ScoreNum(rep) <= ScoreDen(rep)

\* C12: with four isValid = true and one isValid = false response, in
\* whatever order they arrive, the outcome is never Rejected, it is Approved
\* once all five have answered, and the dissenter's false-negative count is
\* then exactly one.
C12_FourOfFiveApproved ==
    \A v \in VerifIds :
        /\ results[v].consensus # "rejected"
        /\ results[v].verifierCount = 5 =>
              /\ results[v].consensus = "approved"
              /\ v \in completedVerifications
              /\ reputationScores[4].falseNegatives = 1

\* C13: a peer whose reputation score the finalizations have driven below
\* 0.5 is not made a candidate by a submit whose lookup returns it, and a
\* peer whose score is below 0.3 is not selected by a request_verification.
C13_LowReputationIsGated ==
    \A p \in KnownPeers :
        LET rep == reputationScores[p]
        IN  /\ 10 * ScoreNum(rep) < 5 * ScoreDen(rep) =>
                  \A req \in Requirements : FindTaskCandidates(req, <<p>>) = <<>>
            /\ 10 * ScoreNum(rep) < 3 * ScoreDen(rep) =>
                  \A req \in Requirements, completedBy \in KnownPeers :
                      p \notin SelectVerifiers(req, completedBy)

\* C14: every peer reported as connected (getConnectedPeers) has a peer
\* record with status connected, and its channel is open.
C14_ConnectedHasRecord ==
    \A p \in GetConnectedPeers :
        /\ peers[p] = "connected"
        /\ dataChannels[p] = "open"

\* C15: every node in the routing table sits in the bucket whose index is
\* floor(log2(xor(local, N))), xor being the bitwise XOR of the ids.
C15_BucketIsLog2OfXor ==
    [][\A i \in DOMAIN buckets :
          \A j \in 1..Len(buckets'[i]) :
              (\A h \in 1..Len(buckets[i]) : buckets[i][h] # buckets'[i][j])
                  => i = FloorLog2(Xor(Local, buckets'[i][j].id))]_vars

\* C16: after any interleaving of peer-connected and peer-disconnected events,
\* with additions suspended on an LRU ping, no node id occurs twice in the
\* routing table, the local id does not occur and no bucket holds more than
\* k nodes.
C16_NoNodeTwice ==
    \A i \in DOMAIN buckets :
        /\ Len(buckets[i]) <= k
        /\ \A j \in 1..Len(buckets[i]) :
              /\ buckets[i][j].id # Local
              /\ \A i2 \in DOMAIN buckets :
                    \A j2 \in 1..Len(buckets[i2]) :
                        buckets[i2][j2].id = buckets[i][j].id => (i2 = i /\ j2 = j)

\* C17: when the pong of the pinged least-recently-seen node arrived before
\* the ping deadline, the suspended addition ends with that node retained and
\* the new node dropped: the table is left as it was.
C17_PongKeepsLru ==
    [][\A a \in pendingAdds :
          (a.ponged /\ a \notin pendingAdds') => buckets' = buckets]_vars

\* C18: a submit that found no suitable candidate has failed and has left no
\* task behind: its id is in none of the pending, active, assignment and
\* completed tables, no assignment frame was sent for it and no completion
\* timer is armed for it.
C18_EmptyCandidatesRecordsNothing ==
    \A t \in submitErrors :
        /\ t \notin pendingTasks
        /\ t \notin activeTasks
        /\ taskAssignments[t] = NoAssignment
        /\ t \notin completedTasks
        /\ \A f \in sent : f.type = "task_request" => f.id # t
        /\ t \notin taskTimers

\* a submit has failed for want of candidates
C18_Witness ==
    \E t \in TaskIds : t \in submitErrors /\ t < nextTask

C20_HelperDecidesAccept ==
    /\ \A t \in receivedApproved : [taskId |-> t, action |-> "accept"] \in consulted
    /\ \A t \in executed : [taskId |-> t, action |-> "accept"] \in consulted

\* C21: a partition check records and announces a partition with status
\* Detected exactly when connected / max(1, known) is strictly below 0.3 (at
\* exactly 0.3 it does not), and the partition's affected peers are exactly
\* the known peers that are not connected.
C21_PartitionDetectedBelowThreshold ==
    [][healthChecks' # healthChecks =>
          LET below == 10 * Cardinality(connectedPeers)
                          < 3 * Max(1, Cardinality(knownPeers))
              new == partitionEvents' \ partitionEvents
          IN  /\ below <=> new # {}
              /\ ~below => networkPartitions' = networkPartitions
              /\ \A e \in new :
                    /\ e.status = "detected"
                    /\ e.affectedPeers = {p \in knownPeers : p \notin connectedPeers}
                    /\ networkPartitions[e.id] = NoPartition
                    /\ networkPartitions'[e.id].affectedPeers = e.affectedPeers]_vars

\* a check has run at a ratio of exactly 0.3 and has recorded nothing
C21_Witness ==
    /\ healthChecks > 0
    /\ partitionEvents = {}
    /\ 10 * Cardinality(connectedPeers) = 3 * Cardinality(knownPeers)
    /\ knownPeers # {}

\* C22: every detected partition gets at most 3 healing attempts and reaches
\* a terminal status, Healed or Permanent; it does not stay Detected or
\* Healing forever, and once Healed or Permanent its status does not change.
C22_PartitionReachesTerminal ==
    /\ [](\A id \in PartitionIds :
             networkPartitions[id].healingAttempts <= maxRecoveryAttempts)
    /\ [][\A id \in PartitionIds :
             networkPartitions[id].status \in {"healed", "permanent"}
                 => networkPartitions'[id].status = networkPartitions[id].status]_vars
    /\ \A id \in PartitionIds :
          (networkPartitions[id].status \in {"detected", "healing"})
              ~> (networkPartitions[id].status \in {"healed", "permanent"})

C24_MaliciousPeerQuarantined ==
    [][\A e \in securityEvents' \ securityEvents :
          e.type = "malicious_peer" =>
              /\ e.source \in blacklistedPeers'
              /\ e.source \notin connections'
              /\ dataChannels'[e.source] = "none"
              /\ \A t \in trustedPeers' :
                    SecurityAlertFrame(t, e.source) \in sent']_vars

\* C25: a step of the security monitor that stores a malicious_peer threat
\* (raised from reputation score or error rate alone) neither blacklists a
\* trusted peer nor removes one from the trusted set.
C25_TrustedPeerNeverQuarantined ==
    [][(\E e \in securityEvents' \ securityEvents : e.type = "malicious_peer") =>
          \A p \in trustedPeers :
              /\ p \in trustedPeers'
              /\ p \notin blacklistedPeers']_vars

\* C28: connectToPeer for a peer whose channel is open returns true and
\* changes nothing; a connect that fails below the limit has counted one more
\* attempt; a connection reaching 'connected' clears the counter; once three
\* tries have been made and the peer is Failed, connectToPeer returns false
\* and opens nothing; the retry timer opens a connection only while the
\* counter is below three.
C28_ConnectAttemptsBounded ==
    [][\A p \in NetPeers :
          /\ (connectReturned'.peerId = p /\ dataChannels[p] = "open") =>
                /\ connectReturned'.value
                /\ UNCHANGED <<peers, connections, dataChannels, connectionAttempts>>
          /\ (/\ connectReturned'.peerId = p
              /\ ~connectReturned'.value
              /\ connectionAttempts[p] < maxConnectionAttempts) =>
                connectionAttempts'[p] = connectionAttempts[p] + 1
          /\ (peers'[p] = "connected" /\ peers[p] # "connected") =>
                connectionAttempts'[p] = 0
          /\ (/\ connectReturned'.peerId = p
              /\ connectionAttempts[p] >= maxConnectionAttempts
              /\ peers[p] = "failed") =>
                /\ ~connectReturned'.value
                /\ connections' = connections
          /\ (p \in retryTimers \ retryTimers' /\ p \in connections' \ connections) =>
                connectionAttempts[p] < maxConnectionAttempts]_vars

\* The position of a component in a sequence of component names, 0 if absent.
PositionIn(seq, c) ==
    IF \E i \in DOMAIN seq : seq[i] = c
    THEN CHOOSE i \in DOMAIN seq : seq[i] = c
    ELSE 0

\* order lists the components of a log in the order of a second list: every
\* component of log that is in order comes at a position that grows with its
\* position in order.
FollowsOrder(log, order) ==
    \A i, j \in DOMAIN log :
        (i < j /\ PositionIn(order, log[i]) > 0 /\ PositionIn(order, log[j]) > 0) =>
            PositionIn(order, log[i]) < PositionIn(order, log[j])

\* The reverse of a sequence.
Reverse(seq) == [i \in 1..Len(seq) |-> seq[Len(seq) + 1 - i]]

\* The five components in the order the specification gives.
StatedBootOrder ==
    <<"networkManager", "dhtDistribution", "peerDiscovery", "taskVerification",
      "networkResilience">>

\* The five components in the order Peer Manager, Routing, Verification,
\* Discovery, Resilience.
AmendedBootOrder ==
    <<"networkManager", "dhtDistribution", "taskVerification", "peerDiscovery",
      "networkResilience">>

\* A component's initialize is called only when every earlier call returned.
StartedAfterPreviousDone ==
    /\ Len(initDone) <= Len(initStarted)
    /\ Len(initStarted) <= Len(initDone) + 1
    /\ \A i \in DOMAIN initDone : initDone[i] = initStarted[i]

\* C26 as stated: the components are started in the order Peer Manager,
\* Routing, Discovery, Verification, Resilience, each after the previous one
\* returned, and a shutdown stops them in the reverse of that order.
C26_BootOrderAsStated ==
    /\ StartedAfterPreviousDone
    /\ FollowsOrder(initStarted, StatedBootOrder)
    /\ FollowsOrder(shutdownLog, Reverse(StatedBootOrder))

\* C26, amended: the components are started in the order Peer Manager,
\* Routing, Verification, Discovery, Resilience (Resilience only when the
\* configuration enables it), each after the previous one returned; a
\* completed boot has started all of them, and a shutdown stops the same
\* components in exactly the reverse order.
C26_BootOrder ==
    /\ StartedAfterPreviousDone
    /\ FollowsOrder(initStarted, AmendedBootOrder)
    /\ FollowsOrder(shutdownLog, Reverse(AmendedBootOrder))
    /\ isInitialized =>
          \A i \in DOMAIN AmendedBootOrder :
              (AmendedBootOrder[i] # "networkResilience" \/ config.networkResilience)
                  => PositionIn(initDone, AmendedBootOrder[i]) > 0
    /\ shutdownLog # <<>> => shutdownLog = Reverse(initDone)

C26_Witness ==
    /\ config.networkResilience
    /\ ~isInitialized
    /\ Len(initDone) = 6
    /\ Len(shutdownLog) = 6

\* The last shutdown has completed and no boot has started since.
ShutdownCompleted == ~isInitialized /\ ~initializing /\ shutdownLog # <<>>

\* C27: once shutdown has completed no task watchdog reports a failure, no
\* verification deadline fires, no channel or connection exists, and neither
\* the reconnect retry nor a recovery backoff opens a connection.
C27_NothingRunsAfterShutdown ==
    [][ShutdownCompleted =>
          /\ \A t \in TaskIds : ~(t \in taskTimers \ taskTimers' /\ t \in activeTasks)
          /\ deadlineFired' = deadlineFired
          /\ connections' = {}
          /\ \A p \in NetPeers : dataChannels'[p] = "none"]_vars

C30_VerifierAnswersRequester ==
    [][\A p \in RemotePeers, v \in VerifIds :
          (<<p, v>> \in verifierHandled' \ verifierHandled) =>
              [from |-> p, to |-> Local, id |-> v] \in verifierResponses']_vars

\* C31: in every verification outcome no verifier id has two stored
\* responses, and verifierCount = approvalCount + rejectionCount = the number
\* of stored responses, approvals and rejections being the stored responses
\* with isValid true and false.
C31_OneCountedResponsePerVerifier ==
    \A v \in VerifIds :
        LET r == results[v]
            n == Len(r.verifications)
        IN  /\ \A i, j \in 1..n :
                  r.verifications[i].verifierId = r.verifications[j].verifierId => i = j
            /\ r.verifierCount = n
            /\ r.approvalCount = Cardinality({i \in 1..n : r.verifications[i].isValid})
            /\ r.rejectionCount = Cardinality({i \in 1..n : ~r.verifications[i].isValid})
            /\ r.verifierCount = r.approvalCount + r.rejectionCount

C31_Witness ==
    \E v \in VerifIds :
        /\ Len(results[v].verifications) >= 3
        /\ results[v].approvalCount >= 1
        /\ results[v].rejectionCount >= 1

\* C32: every stored (counted) response of a verification comes from one of
\* the verifiers selected for it, and never from the executor of the result
\* (submittedBy of the request).
C32_OnlySelectedVerifiersCounted ==
    \A v \in VerifIds :
        \A i \in 1..Len(results[v].verifications) :
            /\ results[v].verifications[i].verifierId \in selectedVerifiers[v]
            /\ results[v].verifications[i].verifierId # verificationRequests[v].submittedBy

\* The peers of the catalog that may verify a result of completedBy.
C33_Eligible(req, completedBy) ==
    {p \in KnownPeers : /\ p # completedBy
                        /\ PeerInfo(p).status = "connected"
                        /\ CanPeerVerify(p, req)}

NoRepeats(nodes) == \A i, j \in 1..Len(nodes) : nodes[i] = nodes[j] => i = j

C36_FindNodeAnswered ==
    /\ \A f \in findNodeReceived :
          /\ f \in messageEvents
          /\ [type |-> "peer_discovery", to |-> f.from, requestId |-> f.requestId]
                \in replyFrames
    /\ \A c \in queryCompletions : c.query = c.by

\* The rule as stated: score < 0.2 with at least 5 verifications, or error
\* rate > 0.5 with at least 10.
C37_StatedMalicious(rep) ==
    \/ /\ 100 * ScoreNum(rep) < lowScorePct * ScoreDen(rep)
       /\ rep.total >= lowScoreMinVerifications
    \/ /\ 100 * (rep.falsePositives + rep.falseNegatives) > errorRatePct * rep.total
       /\ rep.total >= errorRateMinVerifications

\* C37: a run of the security monitor that flags anyone flags exactly the
\* peers whose reputation meets the stated rule, the counts of exactly 5 and
\* exactly 10 verifications included.
C37_FlaggedExactlyByRule ==
    [][securityEvents' # securityEvents =>
          \A p \in NetPeers :
              C37_StatedMalicious(reputationScores[p]) <=>
                  \E e \in securityEvents' \ securityEvents :
                      e.type = "malicious_peer" /\ e.source = p]_vars

\* C38: a disconnect starts a RecoveryAction; it makes at most
\* maxRecoveryAttempts (3) attempts; the step that records it successful
\* leaves the peer connected; it is recorded unsuccessful only after three
\* attempts, by the search for a replacement.
C38_RecoveryAsStated ==
    [][\A p \in NetPeers :
          /\ recoveryActions'[p].attempts <= maxRecoveryAttempts
          /\ (recoveryActions'[p].success = "true" /\ recoveryActions[p].success # "true") =>
                peers'[p] = "connected"
          /\ (recoveryActions'[p].success = "false" /\ recoveryActions[p].success # "false") =>
                /\ recoveryActions[p].attempts = maxRecoveryAttempts
                /\ recoveries[p] = maxRecoveryAttempts + 1]_vars

C40_NoConnectionToBlacklisted ==
    \A p \in blacklistedPeers : p \notin connections

====
